---- MODULE Spec2Model ----
(***************************************************************************)
(* A model of the hcds formula subsystem: the expression parser            *)
(* (app/api/formula_parser.py), the scope resolver                         *)
(* (app/api/formula_resolution.py), the schema routes and the formula      *)
(* validation (app/api/templates.py), the evaluator (app/api/compute.py)   *)
(* and the instance routes that reach it (app/api/datasets.py), over the   *)
(* two CouchDB databases "structure" (templates) and "data_items"          *)
(* (instances).                                                            *)
(*                                                                         *)
(* Python strings are sequences of one-character strings, so that the      *)
(* regular expressions of the source can be modelled by what they match.   *)
(* A uuid4 is one element of such a sequence ("u1", "u2", ...).            *)
(***************************************************************************)
EXTENDS Integers, Sequences, FiniteSets, TLC

VARIABLES
    structure,   \* the "structure" database: template id -> template document
    data_items,  \* the "data_items" database: a sequence of instance documents
    nextId,      \* how many uuid4 values have been drawn
    last,        \* the last request served and its response
    pub,         \* publish_template requests in flight, one per worker thread
    part_idx,    \* formula_parser.part_idx, the module-level cursor
    par,         \* parse_formula calls in flight, one per worker thread
    ev           \* the last evaluation request and its outcome

vars == <<structure, data_items, nextId, last, pub, part_idx, par, ev>>

-----------------------------------------------------------------------------
(* Bounds of the model *)

\* uuid4 values drawn in one behaviour
MaxIds == 3
\* documents in the "structure" database
MaxTemplates == 2
\* parse_formula calls a worker thread makes
MaxCalls == 2

-----------------------------------------------------------------------------
(* Strings *)

UpperCase ==
    <<"A","B","C","D","E","F","G","H","I","J","K","L","M",
      "N","O","P","Q","R","S","T","U","V","W","X","Y","Z">>
LowerCase ==
    <<"a","b","c","d","e","f","g","h","i","j","k","l","m",
      "n","o","p","q","r","s","t","u","v","w","x","y","z">>
Letters == {UpperCase[i] : i \in 1..26} \cup {LowerCase[i] : i \in 1..26}
Digits == {"0", "1", "2", "3", "4", "5", "6", "7", "8", "9"}
Uuids == <<"u1", "u2", "u3", "u4", "u5", "u6", "u7", "u8", "u9", "u10", "u11", "u12">>
UuidSet == {Uuids[i] : i \in 1..Len(Uuids)}

\* \w of the re module
WordChars == Letters \cup Digits \cup {"_"}

\* str.lower() then str.replace(" ", "_"), one character at a time
NormChar(c) ==
    IF \E i \in 1..26 : UpperCase[i] = c
    THEN LowerCase[CHOOSE i \in 1..26 : UpperCase[i] = c]
    ELSE IF c = " " THEN "_" ELSE c

NormName(s) == [i \in 1..Len(s) |-> NormChar(s[i])]

RECURSIVE LStrip(_)
LStrip(s) == IF s # <<>> /\ Head(s) = " " THEN LStrip(Tail(s)) ELSE s

RECURSIVE RStrip(_)
RStrip(s) == IF s # <<>> /\ s[Len(s)] = " " THEN RStrip(SubSeq(s, 1, Len(s) - 1)) ELSE s

\* str.strip()
Strip(s) == RStrip(LStrip(s))

RECURSIVE SeqToSet(_)
SeqToSet(s) == IF s = <<>> THEN {} ELSE {Head(s)} \cup SeqToSet(Tail(s))

RECURSIVE Flatten(_)
Flatten(ss) == IF ss = <<>> THEN <<>> ELSE Head(ss) \o Flatten(Tail(ss))

-----------------------------------------------------------------------------
(* Values of the parser and the resolver.  A Python str, list, tuple, dict  *)
(* (single key) or None is a record tagged with its type.                   *)

Str(s) == [t |-> "str", s |-> s, l |-> <<>>]
Lst(l) == [t |-> "list", s |-> <<>>, l |-> l]
\* a tuple (name, second): l holds the one second component, a Lst or a Str
Tup(f, second) == [t |-> "tuple", s |-> f, l |-> <<second>>]
Dct(f, l) == [t |-> "dict", s |-> f, l |-> l]
NoneV == [t |-> "none", s |-> <<>>, l |-> <<>>]
\* an exception raised while the value was being built
Raised == [t |-> "raise", s |-> <<>>, l |-> <<>>]

-----------------------------------------------------------------------------
(* formula_parser.py *)

TwoCharDelims ==
    {<<">", "=">>, <<"<", "=">>, <<"!", "=">>, <<"=", "=">>, <<"&", "&">>, <<"|", "|">>}
OneCharDelims == {",", "(", ")", "*", "/", "+", "-", ">", "<", "="}

\* re.split(delimiters, formula): the parts between delimiters and, the
\* pattern being one capturing group, the delimiters themselves
RECURSIVE ReSplit(_, _, _)
ReSplit(formula, i, cur) ==
    IF i > Len(formula) THEN <<cur>>
    ELSE IF i < Len(formula) /\ <<formula[i], formula[i + 1]>> \in TwoCharDelims
        THEN <<cur, <<formula[i], formula[i + 1]>>>> \o ReSplit(formula, i + 2, <<>>)
    ELSE IF formula[i] \in OneCharDelims
        THEN <<cur, <<formula[i]>>>> \o ReSplit(formula, i + 1, <<>>)
    ELSE ReSplit(formula, i + 1, Append(cur, formula[i]))

\* parts_without_empty
Parts(formula) ==
    LET parts == ReSplit(formula, 1, <<>>)
        stripped == [i \in 1..Len(parts) |-> Strip(parts[i])]
    IN SelectSeq(stripped, LAMBDA p : p # <<>>)

FunctionNames ==
    { <<"S","U","M">>, <<"D","I","F","F","E","R","E","N","C","E">>,
      <<"P","R","O","D","U","C","T">>, <<"M","I","N">>, <<"M","A","X">>,
      <<"M","E","A","N">>, <<"I","F">>, <<"L","O","O","K","U","P">>,
      <<"Q","U","O","T","I","E","N","T">>, <<"A","N","D">>, <<"O","R">>,
      <<"N","O","T">>, <<"C","O","U","N","T">>,
      <<"C","O","N","C","A","T","E","N","A","T","E">>,
      <<"C","O","N","T","A","I","N","S">>,
      <<"N","O","T","_","C","O","N","T","A","I","N","S">> }

MulOps == {<<"*">>, <<"/">>}
AddOps == {<<"-">>, <<"+">>}
CmpOps ==
    {<<">">>, <<"<">>, <<">", "=">>, <<"<", "=">>, <<"=">>, <<"!", "=">>,
     <<"&", "&">>, <<"|", "|">>}

\* _add_to_level run alone: the list built and the value part_idx is left at.
\* idx is part_idx (0-based as in the source).
RECURSIVE AddToLevel(_, _, _)
AddToLevel(parent, idx, part_list) ==
    IF idx >= Len(part_list) THEN [parent |-> parent, idx |-> idx]
    ELSE LET part == part_list[idx + 1] IN
        IF part = <<"(">>
            THEN LET r == AddToLevel(<<>>, idx + 1, part_list)
                 IN AddToLevel(Append(parent, Lst(r.parent)), r.idx, part_list)
        ELSE IF part = <<")">> THEN [parent |-> parent, idx |-> idx + 1]
        ELSE IF part = <<",">> THEN AddToLevel(parent, idx + 1, part_list)
        ELSE AddToLevel(Append(parent, Str(part)), idx + 1, part_list)

\* _create_function_tuple from position idx on.  The element after a function
\* name becomes the second component whatever it is: a list is recursed into,
\* a str is returned as it is (none of its characters is a function name);
\* no element after it is an IndexError.
RECURSIVE CreateFunctionTupleFrom(_, _)
CreateFunctionTupleFrom(part_list, idx) ==
    IF idx >= Len(part_list) THEN part_list
    ELSE LET part == part_list[idx + 1] IN
        IF part.t = "str" /\ part.s \in FunctionNames
        THEN IF idx + 2 > Len(part_list)
             THEN <<Raised>>
             ELSE LET nxt == part_list[idx + 2]
                      tuplized == IF nxt.t = "list"
                                  THEN Lst(CreateFunctionTupleFrom(nxt.l, 0))
                                  ELSE nxt
                      new_list == Tup(part.s, tuplized)
                  IN CreateFunctionTupleFrom(
                        SubSeq(part_list, 1, idx) \o <<new_list>>
                            \o SubSeq(part_list, idx + 3, Len(part_list)),
                        idx + 1)
        ELSE CreateFunctionTupleFrom(part_list, idx + 1)

CreateFunctionTuple(part_list) == CreateFunctionTupleFrom(part_list, 0)

\* one of the three "while not completed" loops of _funtionalize_part
RECURSIVE FoldTier(_, _, _)
FoldTier(part_list, idx, ops) ==
    IF ~(idx > 0 /\ idx < Len(part_list)) THEN part_list
    ELSE LET part == part_list[idx + 1] IN
        IF part.t = "str" /\ part.s \in ops
        THEN IF idx + 2 > Len(part_list)
             THEN <<Raised>>
             ELSE LET new_list == Tup(part.s, Lst(<<part_list[idx], part_list[idx + 2]>>))
                  IN FoldTier(SubSeq(part_list, 1, idx - 1) \o <<new_list>>
                                  \o SubSeq(part_list, idx + 3, Len(part_list)),
                              idx, ops)
        ELSE FoldTier(part_list, idx + 1, ops)

\* _funtionalize_part of a str (the second component of a tuple whose
\* function name was not followed by a group): the loops index the str's
\* characters, and the second character of >=, <=, != and == is the operator
\* "=" with no right neighbour.
FunctionalizeStr(item) ==
    IF Len(item.s) = 2 /\ item.s[2] = "=" THEN Raised ELSE item

\* a _funtionalize_part with one loop for the operators of the three tiers
FunctionalizeOneTier(part_list) == FoldTier(part_list, 1, MulOps \cup AddOps \cup CmpOps)

\* _funtionalize_part.  A tuple's second component is l[1]: a Lst or a Str.
RECURSIVE FunctionalizePart(_)
FunctionalizePart(part_list) ==
    LET clean == [i \in 1..Len(part_list) |->
                    IF part_list[i].t = "tuple"
                    THEN [part_list[i] EXCEPT !.l =
                            << IF part_list[i].l[1].t = "list"
                               THEN Lst(FunctionalizePart(part_list[i].l[1].l))
                               ELSE FunctionalizeStr(part_list[i].l[1]) >>]
                    ELSE part_list[i]]
    IN FoldTier(FoldTier(FoldTier(clean, 1, MulOps), 1, AddOps), 1, CmpOps)

\* _convert_tuples_to_dict.  Iterating a str second component gives its
\* characters.  A Dct's l is its value list.
RECURSIVE ConvertTuplesToDict(_)
ConvertTuplesToDict(formula_list) ==
    [i \in 1..Len(formula_list) |->
        LET item == formula_list[i] IN
        IF item.t = "tuple"
        THEN IF item.l[1].t = "list"
             THEN Dct(item.s, ConvertTuplesToDict(item.l[1].l))
             ELSE Dct(item.s, [j \in 1..Len(item.l[1].s) |-> Str(<<item.l[1].s[j]>>)])
        ELSE item]

\* whether an exception was raised while the list was built
RECURSIVE HasRaised(_)
HasRaised(items) ==
    \E i \in 1..Len(items) :
        \/ items[i].t = "raise"
        \/ HasRaised(items[i].l)

\* parse_formula from the list _add_to_level returned on
ParseTopLevel(top_level) ==
    LET functional_top_level == FunctionalizePart(CreateFunctionTuple(top_level))
    IN IF HasRaised(functional_top_level) THEN <<Raised>>
       ELSE ConvertTuplesToDict(functional_top_level)

\* parse_formula run alone
ParseFormula(formula) ==
    ParseTopLevel(AddToLevel(<<>>, 0, Parts(formula)).parent)

-----------------------------------------------------------------------------
(* The template tree.  An entity definition is a dict with the keys id and  *)
(* name and, unless it was made by copy_entity, parent_id, attributes,       *)
(* calculations and entities; keys is the set of those it has.               *)

AllKeys == {"parent_id", "attributes", "calculations", "entities"}

Entity(id, parent_id, name) ==
    [id |-> id, parent_id |-> parent_id, name |-> name, keys |-> AllKeys,
     attributes |-> <<>>, calculations |-> <<>>, entities |-> <<>>]

\* Python's None where an entity is expected
NoEntity ==
    [id |-> "null", parent_id |-> "null", name |-> <<>>, keys |-> {},
     attributes |-> <<>>, calculations |-> <<>>, entities |-> <<>>]

TrunkName == <<"T", "r", "u", "n", "k">>

Min(S) == CHOOSE m \in S : \A n \in S : m <= n

\* every entity of the tree, the root included
RECURSIVE EntitiesOf(_)
EntitiesOf(entity) ==
    {entity} \cup UNION {EntitiesOf(entity.entities[i]) : i \in 1..Len(entity.entities)}

-----------------------------------------------------------------------------
(* formula_resolution.py *)

\* find_entity_by_id of formula_resolution.py: (entity, parent) or None
RECURSIVE ResFindEntityById(_, _)
ResFindEntityById(entity, entity_id) ==
    IF entity.id = entity_id
    THEN [found |-> TRUE, node |-> entity, parent |-> NoEntity]
    ELSE LET hits == IF "entities" \in entity.keys
                     THEN {i \in 1..Len(entity.entities) :
                             ResFindEntityById(entity.entities[i], entity_id).found}
                     ELSE {}
         IN IF hits = {}
            THEN [found |-> FALSE, node |-> NoEntity, parent |-> NoEntity]
            ELSE [found |-> TRUE,
                  node |-> ResFindEntityById(entity.entities[Min(hits)], entity_id).node,
                  parent |-> entity]

IsWord(s) == s # <<>> /\ \A i \in 1..Len(s) : s[i] \in WordChars

\* parse_name_string: ("uncle", n), ("nephew", n1, n2), ("sibling", n) or None
ParseNameString(s) ==
    IF Len(s) >= 3 /\ s[1] = "." /\ s[2] = "." /\ IsWord(SubSeq(s, 3, Len(s)))
    THEN [kind |-> "uncle", name1 |-> SubSeq(s, 3, Len(s)), name2 |-> <<>>]
    ELSE IF \E d \in 3..(Len(s) - 1) :
                /\ s[1] = "." /\ s[d] = "."
                /\ IsWord(SubSeq(s, 2, d - 1)) /\ IsWord(SubSeq(s, d + 1, Len(s)))
    THEN LET d == CHOOSE d \in 3..(Len(s) - 1) :
                    /\ s[1] = "." /\ s[d] = "."
                    /\ IsWord(SubSeq(s, 2, d - 1)) /\ IsWord(SubSeq(s, d + 1, Len(s)))
         IN [kind |-> "nephew", name1 |-> SubSeq(s, 2, d - 1),
             name2 |-> SubSeq(s, d + 1, Len(s))]
    ELSE IF Len(s) >= 2 /\ s[1] = "." /\ IsWord(SubSeq(s, 2, Len(s)))
    THEN [kind |-> "sibling", name1 |-> SubSeq(s, 2, Len(s)), name2 |-> <<>>]
    ELSE [kind |-> "none", name1 |-> <<>>, name2 |-> <<>>]

\* the two loops over attributes and calculations: the last match wins, and a
\* calculation wins over an attribute.  cur is attribute_id so far.
RECURSIVE LastMatch(_, _, _, _)
LastMatch(elems, name, prefix, cur) ==
    IF elems = <<>> THEN cur
    ELSE LastMatch(Tail(elems), name, prefix,
                   IF NormName(Head(elems).name) = name
                   THEN Str(prefix \o <<Head(elems).id>>) ELSE cur)

MatchIn(entity, name, pa, pc, cur) ==
    IF {"attributes", "calculations"} \subseteq entity.keys
    THEN LastMatch(entity.calculations, name, pc,
                   LastMatch(entity.attributes, name, pa, cur))
    ELSE Raised

\* the loop over entity["entities"] of the nephew branch
RECURSIVE NephewMatch(_, _, _, _)
NephewMatch(children, name1, name2, cur) ==
    IF children = <<>> \/ cur.t = "raise" THEN cur
    ELSE NephewMatch(Tail(children), name1, name2,
                     IF NormName(Head(children).name) = name1
                     THEN MatchIn(Head(children), name2, <<"_">>, <<"_", "c", "_">>, cur)
                     ELSE cur)

\* a get_element_id that looks for an uncle in the entity itself
GetElementIdInEntity(entity, name1, name2, type, template) ==
    IF type \in {"uncle", "sibling"}
    THEN MatchIn(entity, name1, <<>>, <<"c", "_">>, NoneV)
    ELSE IF "entities" \notin entity.keys THEN Raised
         ELSE NephewMatch(entity.entities, name1, name2, NoneV)

\* get_element_id: the prefixed id, None, or an exception (the parent of the
\* trunk is not found and the unpacking of None raises; a key is missing)
GetElementId(entity, name1, name2, type, template) ==
    IF type = "uncle"
    THEN IF "parent_id" \notin entity.keys THEN Raised
         ELSE LET r == ResFindEntityById(template.trunk, entity.parent_id)
              IN IF ~r.found THEN Raised
                 ELSE MatchIn(r.node, name1, <<>>, <<"c", "_">>, NoneV)
    ELSE IF type = "sibling"
    THEN MatchIn(entity, name1, <<>>, <<"c", "_">>, NoneV)
    ELSE IF "entities" \notin entity.keys THEN Raised
         ELSE NephewMatch(entity.entities, name1, name2, NoneV)

\* process_list.decode_name
DecodeName(potential_id, entity, template) ==
    LET name_tuple == ParseNameString(potential_id)
    IN IF name_tuple.kind = "none" THEN Str(potential_id)
       ELSE GetElementId(entity, name_tuple.name1, name_tuple.name2,
                         name_tuple.kind, template)

\* process_list
RECURSIVE ProcessList(_, _, _)
ProcessList(parsed_formula, entity, template) ==
    [i \in 1..Len(parsed_formula) |->
        LET part == parsed_formula[i] IN
        IF part.t = "str" THEN DecodeName(part.s, entity, template)
        ELSE IF part.t = "dict" THEN Dct(part.s, ProcessList(part.l, entity, template))
        ELSE IF part.t = "list" THEN Lst(ProcessList(part.l, entity, template))
        ELSE part]

\* the formula_code process_entity_formulas gives one calculation
Resolve(formula, entity, template) ==
    ProcessList(ParseFormula(formula), entity, template)

\* process_entity_formulas
RECURSIVE ProcessEntityFormulas(_, _)
ProcessEntityFormulas(trunk, template) ==
    [trunk EXCEPT
        !.calculations = [i \in 1..Len(trunk.calculations) |->
            [trunk.calculations[i] EXCEPT
                !.formula_code = Resolve(trunk.calculations[i].formula, trunk, template)]],
        !.entities = [i \in 1..Len(trunk.entities) |->
            ProcessEntityFormulas(trunk.entities[i], template)]]

\* whether process_templateformulas raises: a calculations or entities key is
\* missing somewhere in the tree, or parsing or resolving a formula raises
ProcessRaises(template) ==
    \E e \in EntitiesOf(template.trunk) :
        \/ ~({"calculations", "entities"} \subseteq e.keys)
        \/ \E i \in 1..Len(e.calculations) :
              HasRaised(Resolve(e.calculations[i].formula, e, template))

\* process_templateformulas
ProcessTemplateFormulas(template) ==
    [template EXCEPT !.trunk = ProcessEntityFormulas(template.trunk, template)]

-----------------------------------------------------------------------------
(* templates.py: helper functions *)

NotFound == [found |-> FALSE, node |-> NoEntity, parent |-> NoEntity]

\* find_entity_by_id of templates.py: (entity, parent) or None
RECURSIVE FindEntityById(_, _)
FindEntityById(entity, entity_id) ==
    IF entity.id = entity_id
    THEN [found |-> TRUE, node |-> entity, parent |-> NoEntity]
    ELSE LET hits == IF "entities" \in entity.keys
                     THEN {i \in 1..Len(entity.entities) :
                             FindEntityById(entity.entities[i], entity_id).found}
                     ELSE {}
         IN IF hits = {} THEN NotFound
            ELSE LET result == FindEntityById(entity.entities[Min(hits)], entity_id)
                 IN IF result.parent # NoEntity THEN result
                    ELSE [found |-> TRUE, node |-> result.node, parent |-> entity]

\* the shared shape of find_attribute_by_id and find_calculation_by_id:
\* (element, trunk) when the element is in trunk's own list, and otherwise
\* (element, entity) for the first child entity the search succeeds under
RECURSIVE FindElementById(_, _, _)
FindElementById(trunk, element_id, key) ==
    LET own == IF key \in trunk.keys
               THEN {i \in 1..Len(trunk[key]) : trunk[key][i].id = element_id}
               ELSE {}
        hits == IF "entities" \in trunk.keys
                THEN {i \in 1..Len(trunk.entities) :
                        FindElementById(trunk.entities[i], element_id, key).found}
                ELSE {}
    IN IF own # {}
       THEN [found |-> TRUE, node |-> trunk[key][Min(own)], parent |-> trunk]
       ELSE IF hits = {} THEN [found |-> FALSE, node |-> NoneV, parent |-> NoEntity]
       ELSE [found |-> TRUE,
             node |-> FindElementById(trunk.entities[Min(hits)], element_id, key).node,
             parent |-> trunk.entities[Min(hits)]]

\* find_attribute_by_id
FindAttributeById(trunk, attribute_id) == FindElementById(trunk, attribute_id, "attributes")

\* find_calculation_by_id
FindCalculationById(trunk, calculation_id) ==
    FindElementById(trunk, calculation_id, "calculations")

\* list.remove(x): without the first element equal to x
RemoveFirst(seq, x) ==
    LET i == Min({j \in 1..Len(seq) : seq[j] = x})
    IN SubSeq(seq, 1, i - 1) \o SubSeq(seq, i + 1, Len(seq))

Ids(seq) == {seq[i].id : i \in 1..Len(seq)}

\* delete_element_by_id: trunk after the deletion; raises is the "Cannot
\* delete trunk" HTTPException, found whether an element was returned
RECURSIVE DeleteElementById(_, _)
DeleteElementById(trunk, element_id) ==
    LET no == [found |-> FALSE, raises |-> FALSE, trunk |-> trunk] IN
    IF "attributes" \in trunk.keys /\ element_id \in Ids(trunk.attributes)
    THEN [no EXCEPT !.found = TRUE,
            !.trunk = [trunk EXCEPT !.attributes =
                SelectSeq(trunk.attributes, LAMBDA a : a.id # element_id)]]
    ELSE IF "calculations" \in trunk.keys /\ element_id \in Ids(trunk.calculations)
    THEN [no EXCEPT !.found = TRUE,
            !.trunk = [trunk EXCEPT !.calculations =
                SelectSeq(trunk.calculations, LAMBDA c : c.id # element_id)]]
    ELSE IF "entities" \notin trunk.keys THEN no
    ELSE LET \* the first child that ends the loop: it is the element, or the
             \* element is found (or the exception raised) beneath it
             ends(i) == \/ trunk.entities[i].id = element_id
                        \/ DeleteElementById(trunk.entities[i], element_id).found
                        \/ DeleteElementById(trunk.entities[i], element_id).raises
             hits == {i \in 1..Len(trunk.entities) : ends(i)}
         IN IF hits = {} THEN no
            ELSE LET i == Min(hits)
                     entity == trunk.entities[i]
                     below == DeleteElementById(entity, element_id)
                 IN IF entity.id = element_id
                    THEN IF entity.name = TrunkName
                         THEN [no EXCEPT !.raises = TRUE]
                         ELSE [no EXCEPT !.found = TRUE,
                                 !.trunk = [trunk EXCEPT !.entities =
                                     SubSeq(trunk.entities, 1, i - 1)
                                         \o SubSeq(trunk.entities, i + 1, Len(trunk.entities))]]
                    ELSE [below EXCEPT
                            !.trunk = [trunk EXCEPT !.entities[i] = below.trunk]]

\* check_unique_name
CheckUniqueName(parent_entity, name) ==
    /\ "attributes" \in parent_entity.keys =>
          \A i \in 1..Len(parent_entity.attributes) : parent_entity.attributes[i].name # name
    /\ "entities" \in parent_entity.keys =>
          \A i \in 1..Len(parent_entity.entities) : parent_entity.entities[i].name # name
    /\ "calculations" \in parent_entity.keys =>
          \A i \in 1..Len(parent_entity.calculations) :
              parent_entity.calculations[i].name # name

IsAlnum(c) == c \in Letters \cup Digits

\* check_name_format: ^[a-zA-Z](?:[a-zA-Z0-9]+(?: [a-zA-Z0-9]+)*){0,24}$
\* a letter, then nothing or alphanumeric words one space apart
CheckNameFormat(name) ==
    /\ name # <<>>
    /\ name[1] \in Letters
    /\ \A i \in 2..Len(name) : IsAlnum(name[i]) \/ name[i] = " "
    /\ Len(name) >= 2 => IsAlnum(name[2]) /\ IsAlnum(name[Len(name)])
    /\ \A i \in 2..(Len(name) - 1) : ~(name[i] = " " /\ name[i + 1] = " ")

-----------------------------------------------------------------------------
(* templates.py: check_formula_code *)

AllowedFunctions ==
    { <<"S","U","M">>, <<"D","I","F","F","E","R","E","N","C","E">>,
      <<"P","R","O","D","U","C","T">>, <<"M","I","N">>, <<"M","A","X">>,
      <<"M","E","A","N">>, <<"I","F">>, <<"L","O","O","K","U","P">>,
      <<"Q","U","O","T","I","E","N","T">>, <<"A","N","D">>, <<"O","R">>,
      <<"N","O","T">>, <<"C","O","U","N","T">>,
      <<"C","O","N","C","A","T","E","N","A","T","E">>,
      <<"*">>, <<"+">>, <<"-">>, <<"/">>, <<">">>, <<"<">>, <<"=">>, <<"!", "=">>,
      <<">", "=">>, <<"<", "=">>, <<"&", "&">>, <<"|", "|">> }

\* check_functions: only an item of type tuple is looked at
RECURSIVE CheckFunctions(_)
CheckFunctions(formula_code) ==
    \A i \in 1..Len(formula_code) :
        formula_code[i].t = "tuple" =>
            /\ formula_code[i].s \in AllowedFunctions
            /\ CheckFunctions(formula_code[i].l[1].l)

\* what check_formula_code.get_scope returns, or that it raises
GetScope(calculation, trunk, calculation_id) ==
    LET result == FindEntityById(trunk, calculation.parent_id)
        parent == result.node
        gresult == FindEntityById(trunk, parent.parent_id)
        grandparent == gresult.node
        hasUncle == parent.parent_id # "None"
        raises ==
            \/ ~result.found
            \/ ~(AllKeys \subseteq parent.keys)
            \/ hasUncle /\ ~gresult.found
            \/ hasUncle /\ ~({"attributes", "calculations"} \subseteq grandparent.keys)
            \/ \E i \in 1..Len(parent.entities) :
                  ~({"attributes", "calculations"} \subseteq parent.entities[i].keys)
        uncle == IF hasUncle
                 THEN Ids(grandparent.attributes) \cup Ids(grandparent.calculations)
                 ELSE {}
        sibling == Ids(parent.attributes)
                       \cup (Ids(parent.calculations) \ {calculation_id})
        nephew == UNION {Ids(parent.entities[i].attributes)
                             \cup Ids(parent.entities[i].calculations) :
                         i \in 1..Len(parent.entities)}
    IN [raises |-> raises,
        scope |-> IF raises THEN {} ELSE uncle \cup sibling \cup nephew]

LowerOrUnderscore == {LowerCase[i] : i \in 1..26} \cup {"_"}

\* re.match(regex, item) with
\* regex = ^[a-z_]{0,2}([0-9a-f]{8}-[0-9a-f]{4}-[0-9a-f]{4}-[0-9a-f]{4}-[0-9a-f]{12})$
\* at most two characters of [a-z_], then a uuid, then the end
RegexMatch(item) ==
    /\ item # <<>>
    /\ item[Len(item)] \in UuidSet
    /\ Len(item) - 1 <= 2
    /\ \A i \in 1..(Len(item) - 1) : item[i] \in LowerOrUnderscore

\* get_ids: the ids of the top-level str items the regex matches, in order;
\* an item of type tuple is recursed into, any other item is passed over
RECURSIVE GetIds(_)
GetIds(formula_code) ==
    IF formula_code = <<>> THEN <<>>
    ELSE LET item == Head(formula_code) IN
         (IF item.t = "tuple" THEN GetIds(item.l[1].l)
          ELSE IF item.t = "str" /\ RegexMatch(item.s) THEN <<item.s[Len(item.s)]>>
          ELSE <<>>)
         \o GetIds(Tail(formula_code))

\* process_formula_code_by_entity: the (function, input) pairs of the tree
RECURSIVE ProcessFormulaCodeByEntity(_)
ProcessFormulaCodeByEntity(trunk) ==
    Flatten([i \in 1..Len(trunk.calculations) |->
                LET ids == GetIds(trunk.calculations[i].formula_code)
                IN [j \in 1..Len(ids) |-> <<trunk.calculations[i].id, ids[j]>>]])
    \o Flatten([i \in 1..Len(trunk.entities) |->
                ProcessFormulaCodeByEntity(trunk.entities[i])])

\* a graph that keeps only the first input of a node
FirstNeighbor(function_inputs, node) ==
    LET mine == SelectSeq(function_inputs, LAMBDA e : e[1] = node)
    IN IF mine = <<>> THEN <<>> ELSE <<mine[1][2]>>

\* graph.get(node, []): the inputs of node, in the order they were appended
Neighbors(function_inputs, node) ==
    LET mine == SelectSeq(function_inputs, LAMBDA e : e[1] = node)
    IN [i \in 1..Len(mine) |-> mine[i][2]]

\* check_circularities.is_cyclic(node), and, mutually recursive with it, its
\* loop over the neighbours from position i on.  visited is the set as the call
\* finds it, stack is recursion_stack; the result is whether a cycle was found
\* and visited as the call leaves it.
RECURSIVE IsCyclic(_, _, _, _)
RECURSIVE IsCyclicLoop(_, _, _, _, _)
IsCyclic(function_inputs, node, visited, stack) ==
    IsCyclicLoop(function_inputs, Neighbors(function_inputs, node), 1,
                 visited \cup {node}, stack \cup {node})

IsCyclicLoop(function_inputs, neighbors, i, visited, stack) ==
    IF i > Len(neighbors) THEN [cyclic |-> FALSE, visited |-> visited]
    ELSE IF neighbors[i] \notin visited
    THEN LET r == IsCyclic(function_inputs, neighbors[i], visited, stack)
         IN IF r.cyclic THEN r
            ELSE IsCyclicLoop(function_inputs, neighbors, i + 1, r.visited, stack)
    ELSE IF neighbors[i] \in stack THEN [cyclic |-> TRUE, visited |-> visited]
    ELSE IsCyclicLoop(function_inputs, neighbors, i + 1, visited, stack)

\* the keys of graph in insertion order
RECURSIVE GraphKeys(_, _)
GraphKeys(function_inputs, seen) ==
    IF function_inputs = <<>> THEN <<>>
    ELSE IF Head(function_inputs)[1] \in seen THEN GraphKeys(Tail(function_inputs), seen)
    ELSE <<Head(function_inputs)[1]>>
            \o GraphKeys(Tail(function_inputs), seen \cup {Head(function_inputs)[1]})

\* the "for node in graph" loop of check_circularities
RECURSIVE CircularFrom(_, _, _, _)
CircularFrom(function_inputs, nodes, i, visited) ==
    IF i > Len(nodes) THEN FALSE
    ELSE IF nodes[i] \in visited THEN CircularFrom(function_inputs, nodes, i + 1, visited)
    ELSE LET r == IsCyclic(function_inputs, nodes[i], visited, {})
         IN r.cyclic \/ CircularFrom(function_inputs, nodes, i + 1, r.visited)

\* check_circularities
CheckCircularities(function_inputs) ==
    CircularFrom(function_inputs, GraphKeys(function_inputs, {}), 1, {})

\* what check_formula_code returns: a (bool, reason) tuple, a bare False (the
\* two "return False" statements), or an exception
CheckTuple(ok, reason) == [kind |-> "tuple", ok |-> ok, reason |-> reason]
CheckBare == [kind |-> "bare", ok |-> FALSE, reason |-> ""]
CheckRaise == [kind |-> "raise", ok |-> FALSE, reason |-> ""]

\* process_formula_code_by_entity reads the calculations and the entities of
\* every entity of the tree
TreeHasLists(trunk) ==
    \A e \in EntitiesOf(trunk) : {"calculations", "entities"} \subseteq e.keys

\* check_formula_code
CheckFormulaCode(trunk, calculation_id) ==
    LET result == FindCalculationById(trunk, calculation_id)
        calculation == result.node
        scope == GetScope(calculation, trunk, calculation_id)
        ids == GetIds(calculation.formula_code)
    IN IF ~result.found THEN CheckTuple(FALSE, "Calculation not found.")
       ELSE IF ~CheckFunctions(calculation.formula_code) THEN CheckBare
       ELSE IF scope.raises THEN CheckRaise
       ELSE IF \E i \in 1..Len(ids) : ids[i] \notin scope.scope THEN CheckBare
       ELSE IF ~TreeHasLists(trunk) THEN CheckRaise
       ELSE IF CheckCircularities(ProcessFormulaCodeByEntity(trunk))
            THEN CheckTuple(FALSE, "Circular reference.")
       ELSE CheckTuple(TRUE, "")

-----------------------------------------------------------------------------
(* templates.py: the routes, as functions of the template document read     *)
(* from the store.  Each gives the status code of the response and the       *)
(* document the route writes back; write says whether update_document is     *)
(* reached.  Code 500 is an exception no handler catches.                    *)

Attribute(id, name) == [id |-> id, name |-> name]

Calculation(id, parent_id, name, formula) ==
    [id |-> id, parent_id |-> parent_id, name |-> name, formula |-> formula,
     formula_code |-> <<>>]

\* the in-place change of the entity with the given id (the routes change the
\* dict find_entity_by_id returned, which is part of the template)
RECURSIVE ReplaceEntity(_, _, _)
ReplaceEntity(trunk, entity_id, new_entity) ==
    IF trunk.id = entity_id THEN new_entity
    ELSE [trunk EXCEPT !.entities =
            [i \in 1..Len(trunk.entities) |->
                ReplaceEntity(trunk.entities[i], entity_id, new_entity)]]

Reject(code, template) ==
    [code |-> code, write |-> FALSE, template |-> template, verdict |-> "none"]
Accept(code, template) ==
    [code |-> code, write |-> TRUE, template |-> template, verdict |-> "none"]

Verdict(check) ==
    IF check.kind = "raise" THEN "raise"
    ELSE IF check.kind = "tuple" /\ check.ok THEN "valid" ELSE "invalid"

\* add_entity
AddEntity(template, parent_entity_id, name, new_id) ==
    IF name \in {TrunkName, <<"t", "r", "u", "n", "k">>} THEN Reject(400, template)
    ELSE IF template.status # "Draft" THEN Reject(400, template)
    ELSE LET result == FindEntityById(template.trunk, parent_entity_id)
             target_parent_entity == result.node
         IN IF ~result.found THEN Reject(404, template)
            ELSE IF ~CheckUniqueName(target_parent_entity, name) THEN Reject(400, template)
            ELSE IF "entities" \notin target_parent_entity.keys THEN Reject(500, template)
            ELSE Accept(201, [template EXCEPT !.trunk =
                    ReplaceEntity(template.trunk, parent_entity_id,
                        [target_parent_entity EXCEPT !.entities =
                            Append(@, Entity(new_id, parent_entity_id, name))])])

\* add_attribute_to_entity
AddAttributeToEntity(template, parent_entity_id, name, new_id) ==
    IF template.status # "Draft" THEN Reject(400, template)
    ELSE LET result == FindEntityById(template.trunk, parent_entity_id)
             target_parent_entity == result.node
         IN IF ~result.found THEN Reject(404, template)
            ELSE IF ~CheckUniqueName(target_parent_entity, name) THEN Reject(400, template)
            ELSE Accept(201, [template EXCEPT !.trunk =
                    ReplaceEntity(template.trunk, parent_entity_id,
                        [target_parent_entity EXCEPT
                            !.keys = @ \cup {"attributes"},
                            !.attributes = Append(@, Attribute(new_id, name))])])

\* add_calculation_to_entity
AddCalculationToEntity(template, parent_entity_id, name, formula, new_id) ==
    IF template.status # "Draft" THEN Reject(400, template)
    ELSE LET result == FindEntityById(template.trunk, parent_entity_id)
             target_parent_entity == result.node
             appended == [template EXCEPT !.trunk =
                    ReplaceEntity(template.trunk, parent_entity_id,
                        [target_parent_entity EXCEPT !.calculations =
                            Append(@, Calculation(new_id, parent_entity_id, name, formula))])]
             processed == ProcessTemplateFormulas(appended)
             check == CheckFormulaCode(processed.trunk, new_id)
         IN IF ~result.found THEN Reject(404, template)
            ELSE IF ~CheckUniqueName(target_parent_entity, name) THEN Reject(400, template)
            ELSE IF "calculations" \notin target_parent_entity.keys THEN Reject(500, template)
            ELSE IF ProcessRaises(appended) THEN Reject(500, template)
            \* is_valid, reason = check_formula_code(...): a bare False cannot
            \* be unpacked
            ELSE IF check.kind \in {"raise", "bare"}
                 THEN [Reject(500, template) EXCEPT !.verdict = Verdict(check)]
            ELSE IF ~check.ok
                 THEN [Reject(400, template) EXCEPT !.verdict = Verdict(check)]
            ELSE [Accept(201, processed) EXCEPT !.verdict = Verdict(check)]

\* "None" stands for a field the request leaves out
Absent == <<"N", "o", "n", "e">>

\* update_attribute
UpdateAttribute(template, attribute_id, name) ==
    IF template.status # "Draft" THEN Reject(400, template)
    ELSE LET result == FindAttributeById(template.trunk, attribute_id)
             attribute_picked == result.node
             parent_entity == result.parent
             new_attribute == IF name # Absent /\ name # <<>>
                              THEN [attribute_picked EXCEPT !.name = name]
                              ELSE attribute_picked
         IN IF ~result.found THEN Reject(404, template)
            ELSE IF ~CheckUniqueName(parent_entity, name) THEN Reject(400, template)
            \* parent_entity['attributes'].remove(attribute_picked)
            ELSE IF "attributes" \notin parent_entity.keys THEN Reject(500, template)
            ELSE IF \A i \in 1..Len(parent_entity.attributes) :
                        parent_entity.attributes[i] # attribute_picked
                 THEN Reject(500, template)
            ELSE Accept(200, [template EXCEPT !.trunk =
                    ReplaceEntity(template.trunk, parent_entity.id,
                        [parent_entity EXCEPT !.attributes =
                            Append(RemoveFirst(@, attribute_picked), new_attribute)])])

\* update_calculation
UpdateCalculation(template, calculation_id, name, formula) ==
    IF template.status # "Draft" THEN Reject(400, template)
    ELSE LET result == FindCalculationById(template.trunk, calculation_id)
             calculation_picked == result.node
             parent_entity == result.parent
             named == IF name # Absent /\ name # <<>>
                      THEN [calculation_picked EXCEPT !.name = name]
                      ELSE calculation_picked
             new_calculation == IF formula # Absent /\ formula # <<>>
                                THEN [named EXCEPT !.formula = formula]
                                ELSE named
             replaced == [template EXCEPT !.trunk =
                    ReplaceEntity(template.trunk, parent_entity.id,
                        [parent_entity EXCEPT !.calculations =
                            Append(RemoveFirst(@, calculation_picked), new_calculation)])]
             processed == ProcessTemplateFormulas(replaced)
             check == CheckFormulaCode(processed.trunk, calculation_id)
         IN IF ~result.found THEN Reject(404, template)
            ELSE IF ~CheckUniqueName(parent_entity, name) THEN Reject(400, template)
            \* parent_entity['calculations'].remove(calculation_picked)
            ELSE IF "calculations" \notin parent_entity.keys THEN Reject(500, template)
            ELSE IF \A i \in 1..Len(parent_entity.calculations) :
                        parent_entity.calculations[i] # calculation_picked
                 THEN Reject(500, template)
            ELSE IF ProcessRaises(replaced) THEN Reject(500, template)
            ELSE IF check.kind = "raise"
                 THEN [Reject(500, template) EXCEPT !.verdict = Verdict(check)]
            \* if check_formula_code(...): raise 400.  A tuple is truthy
            \* whatever it holds; only the bare False is not.
            ELSE IF check.kind = "tuple"
                 THEN [Reject(400, template) EXCEPT !.verdict = Verdict(check)]
            ELSE [Accept(200, processed) EXCEPT !.verdict = Verdict(check)]

\* update_entity: the copy is changed, the template is written back as read
UpdateEntity(template, entity_id, name) ==
    IF template.status # "Draft" THEN Reject(400, template)
    ELSE LET result == FindEntityById(template.trunk, entity_id)
         IN IF ~result.found THEN Reject(404, template)
            ELSE IF result.node.name = TrunkName THEN Reject(400, template)
            ELSE IF ~CheckUniqueName(result.parent, name) THEN Reject(400, template)
            ELSE Accept(200, template)

\* delete_element without the check of the template's status
DeleteElementAnyStatus(template, element_id) ==
    LET deleted == DeleteElementById(template.trunk, element_id)
    IN IF deleted.raises THEN Reject(400, template)
       ELSE IF ~deleted.found THEN Reject(404, template)
       ELSE Accept(200, [template EXCEPT !.trunk = deleted.trunk])

\* delete_element
DeleteElement(template, element_id) ==
    IF template.status # "Draft" THEN Reject(400, template)
    ELSE LET deleted == DeleteElementById(template.trunk, element_id)
         IN IF deleted.raises THEN Reject(400, template)
            ELSE IF ~deleted.found THEN Reject(404, template)
            ELSE Accept(200, [template EXCEPT !.trunk = deleted.trunk])

CopySuffix == <<" ", "(", "c", "o", "p", "y", ")">>

\* copy_attribute, the source attribute found
CopyAttribute(source_template, source_attribute_id, target_template, target_entity_id, new_id) ==
    LET found == FindAttributeById(source_template.trunk, source_attribute_id)
        result == FindEntityById(target_template.trunk, target_entity_id)
        target_entity == result.node
        new_attribute == Attribute(new_id, found.node.name \o CopySuffix)
    IN IF ~found.found THEN Reject(404, target_template)
       ELSE IF target_template.status # "Draft" THEN Reject(400, target_template)
       ELSE IF ~result.found THEN Reject(404, target_template)
       ELSE Accept(200, [target_template EXCEPT !.trunk =
                ReplaceEntity(target_template.trunk, target_entity_id,
                    [target_entity EXCEPT
                        !.keys = @ \cup {"attributes"},
                        !.attributes = Append(@, new_attribute)])])

\* copy_entity: the new entity has an id and a name and no other key read here
CopyEntity(source_template, source_entity_id, target_template, target_entity_id, new_id) ==
    LET found == FindEntityById(source_template.trunk, source_entity_id)
        result == FindEntityById(target_template.trunk, target_entity_id)
        target_entity == result.node
        new_entity == [Entity(new_id, "null", found.node.name \o CopySuffix)
                          EXCEPT !.keys = {}]
    IN IF ~found.found THEN Reject(404, target_template)
       ELSE IF found.node.name = TrunkName THEN Reject(400, target_template)
       ELSE IF target_template.status # "Draft" THEN Reject(400, target_template)
       ELSE IF ~result.found THEN Reject(404, target_template)
       ELSE Accept(200, [target_template EXCEPT !.trunk =
                ReplaceEntity(target_template.trunk, target_entity_id,
                    [target_entity EXCEPT
                        !.keys = @ \cup {"entities"},
                        !.entities = Append(@, new_entity)])])


\* set_new_id: trunk with fresh ids, n the number of uuid4 values drawn so far
RECURSIVE SetNewId(_, _)
RECURSIVE SetNewIdAll(_, _, _)
SetNewId(trunk, n) ==
    LET na == IF "attributes" \in trunk.keys THEN Len(trunk.attributes) ELSE 0
        nc == IF "calculations" \in trunk.keys THEN Len(trunk.calculations) ELSE 0
        below == IF "entities" \in trunk.keys
                 THEN SetNewIdAll(trunk.entities, 1, n + 1 + na + nc)
                 ELSE [entities |-> trunk.entities, n |-> n + 1 + na + nc]
    IN [trunk |-> [trunk EXCEPT
                !.id = Uuids[n + 1],
                !.attributes = [i \in 1..Len(@) |->
                    IF i <= na THEN [@[i] EXCEPT !.id = Uuids[n + 1 + i]] ELSE @[i]],
                !.calculations = [i \in 1..Len(@) |->
                    IF i <= nc THEN [@[i] EXCEPT !.id = Uuids[n + 1 + na + i]] ELSE @[i]],
                !.entities = below.entities],
        n |-> below.n]

SetNewIdAll(entities, i, n) ==
    IF i > Len(entities) THEN [entities |-> entities, n |-> n]
    ELSE LET r == SetNewId(entities[i], n)
         IN SetNewIdAll([entities EXCEPT ![i] = r.trunk], i + 1, r.n)

\* update_parent_id
RECURSIVE UpdateParentId(_)
UpdateParentId(trunk) ==
    LET child(e) == [e EXCEPT !.parent_id = trunk.id, !.keys = e.keys \cup {"parent_id"}]
    IN [trunk EXCEPT
          !.entities = [i \in 1..Len(trunk.entities) |->
                          UpdateParentId(child(trunk.entities[i]))],
          !.calculations = [i \in 1..Len(trunk.calculations) |->
                          [trunk.calculations[i] EXCEPT !.parent_id = trunk.id]]]

\* how many uuid4 values set_new_id draws for the tree
CountIds(trunk) == SetNewId(trunk, 0).n

Template(name, status, source_id, trunk) ==
    [name |-> name, status |-> status, source_id |-> source_id, trunk |-> trunk]

\* check_unique_template_name
CheckUniqueTemplateName(docs, name) == \A i \in 1..Len(docs) : docs[i].name # name

\* create_template: source is 0 for no source_id, else the id of a document
CreateTemplate(docs, name, source, n) ==
    LET fresh == Template(name, "Draft", 0, Entity(Uuids[n + 1], "None", TrunkName))
        copied == Template(name, "Draft", source,
                           UpdateParentId(SetNewId(docs[source].trunk, n).trunk))
        new_template == IF source = 0 THEN fresh ELSE copied
    IN IF source # 0 /\ source \notin 1..Len(docs) THEN Reject(404, fresh)
       ELSE IF ~CheckNameFormat(name) THEN Reject(400, fresh)
       ELSE IF ~CheckUniqueTemplateName(docs, name) THEN Reject(400, fresh)
       ELSE Accept(201, new_template)

\* update_template: nothing is written
UpdateTemplate(docs, template, name) ==
    LET renamed == IF name # Absent /\ name # <<>>
                   THEN [template EXCEPT !.name = name] ELSE template
    IN IF template.status # "Draft" THEN Reject(400, template)
       ELSE IF ~CheckNameFormat(renamed.name) THEN Reject(400, template)
       ELSE IF ~CheckUniqueTemplateName(docs, renamed.name) THEN Reject(400, template)
       ELSE Reject(200, template)

\* the trunk entity data item publish_template creates
TrunkInstance(template_id, template) ==
    [template_id |-> template_id, entity_definition_id |-> template.trunk.id,
     parent_entity_id |-> "null", is_deleted |-> FALSE, attributes |-> <<>>,
     calculations |-> <<>>]

\* the loop of publish_template that sets the published templates to deprecated
Deprecate(docs) ==
    [i \in 1..Len(docs) |->
        IF docs[i].status = "Published" THEN [docs[i] EXCEPT !.status = "Deprecated"]
        ELSE docs[i]]

-----------------------------------------------------------------------------
(* compute.py: the values of an evaluation.  A value is a str (s, a sequence *)
(* of characters), a number (the fraction n/d, of type int, float or bool)   *)
(* or an exception that was raised (s holds its type).                       *)

VStr(s) == [k |-> "str", s |-> s, n |-> 0, d |-> 1]
VBool(b) == [k |-> "bool", s |-> <<>>, n |-> IF b THEN 1 ELSE 0, d |-> 1]
VInt(n) == [k |-> "int", s |-> <<>>, n |-> n, d |-> 1]
Raise(type) == [k |-> "raise", s |-> <<type>>, n |-> 0, d |-> 1]
\* what the interpreter raises when the stack of calls has grown to its
\* recursion limit
RecursionError == Raise("RecursionError")
NoValue == [k |-> "none", s |-> <<>>, n |-> 0, d |-> 1]

Abs(n) == IF n < 0 THEN -n ELSE n

RECURSIVE Gcd(_, _)
Gcd(a, b) == IF b = 0 THEN a ELSE Gcd(b, a % b)

\* the float n/d, in lowest terms
VFloat(n, d) ==
    LET g == Gcd(Abs(n), Abs(d))
        sign == IF d < 0 THEN -1 ELSE 1
    IN [k |-> "float", s |-> <<>>, n |-> sign * (n \div g), d |-> sign * (d \div g)]

IsNumber(v) == v.k \in {"int", "float", "bool"}
Stops(v) == v.k = "raise"

DigitSeq == <<"0", "1", "2", "3", "4", "5", "6", "7", "8", "9">>
DigitValue(c) == (CHOOSE i \in 1..10 : DigitSeq[i] = c) - 1

RECURSIVE DigitsValue(_)
DigitsValue(s) ==
    IF s = <<>> THEN 0 ELSE 10 * DigitsValue(SubSeq(s, 1, Len(s) - 1)) + DigitValue(s[Len(s)])

RECURSIVE Pow10(_)
Pow10(j) == IF j = 0 THEN 1 ELSE 10 * Pow10(j - 1)

IsDigits(s) == \A i \in 1..Len(s) : s[i] \in Digits

\* float(s) of a str: white space stripped, a sign, digits and at most one
\* point with a digit on one side of it; anything else is a ValueError
FloatOfStr(s) ==
    LET t == Strip(s)
        signed == t # <<>> /\ t[1] \in {"-", "+"}
        u == IF signed THEN Tail(t) ELSE t
        points == {i \in 1..Len(u) : u[i] = "."}
        whole == IF points = {} THEN u ELSE SubSeq(u, 1, Min(points) - 1)
        frac == IF points = {} THEN <<>> ELSE SubSeq(u, Min(points) + 1, Len(u))
        sign == IF signed /\ t[1] = "-" THEN -1 ELSE 1
    IN IF Cardinality(points) <= 1 /\ IsDigits(whole) /\ IsDigits(frac)
          /\ Len(whole) + Len(frac) > 0
       THEN VFloat(sign * (DigitsValue(whole) * Pow10(Len(frac)) + DigitsValue(frac)),
                   Pow10(Len(frac)))
       ELSE Raise("ValueError")

\* float(item)
ToFloat(v) ==
    IF v.k = "str" THEN FloatOfStr(v.s)
    ELSE IF IsNumber(v) THEN VFloat(v.n, v.d)
    ELSE Raise("TypeError")

RECURSIVE NatStr(_)
NatStr(n) == IF n < 10 THEN <<DigitSeq[n + 1]>> ELSE Append(NatStr(n \div 10), DigitSeq[(n % 10) + 1])

\* the digits after the point of r/d, r < d: all of them when the fraction
\* ends, else the first places of it (repr shows 16 or 17 digits then)
RECURSIVE FracStr(_, _, _)
FracStr(r, d, places) ==
    IF r = 0 \/ places = 0 THEN <<>>
    ELSE <<DigitSeq[((10 * r) \div d) + 1]>> \o FracStr((10 * r) % d, d, places - 1)

\* str(x)
ToStr(v) ==
    IF v.k = "str" THEN v.s
    ELSE IF v.k = "bool" THEN (IF v.n = 1 THEN <<"T", "r", "u", "e">>
                               ELSE <<"F", "a", "l", "s", "e">>)
    ELSE IF v.k = "none" THEN <<"N", "o", "n", "e">>
    ELSE LET a == Abs(v.n)
             sign == IF v.n < 0 THEN <<"-">> ELSE <<>>
         IN IF v.k = "int" THEN sign \o NatStr(a)
            ELSE sign \o NatStr(a \div v.d) \o <<".">>
                 \o (IF a % v.d = 0 THEN <<"0">> ELSE FracStr(a % v.d, v.d, 16))

\* bool(x)
Truthy(v) == IF v.k = "str" THEN v.s # <<>> ELSE IF v.k = "none" THEN FALSE ELSE v.n # 0

-----------------------------------------------------------------------------
(* compute.py: the functions *)

\* the characters of the model's values in code point order
CodePoints ==
    <<" ", "+", "-", ".">> \o DigitSeq \o UpperCase \o <<"_">> \o LowerCase
Ord(c) == CHOOSE i \in 1..Len(CodePoints) : CodePoints[i] = c

\* a < b of two str
RECURSIVE StrLess(_, _)
StrLess(a, b) ==
    IF b = <<>> THEN FALSE
    ELSE IF a = <<>> THEN TRUE
    ELSE IF Head(a) # Head(b) THEN Ord(Head(a)) < Ord(Head(b))
    ELSE StrLess(Tail(a), Tail(b))

\* a < b, defined when both are str or both are numbers
Less(a, b) == IF a.k = "str" THEN StrLess(a.s, b.s) ELSE a.n * b.d < b.n * a.d
\* a == b: a str equals no number; 1 == 1.0 == True
Equal(a, b) ==
    IF a.k = "str" \/ b.k = "str" THEN a.k = b.k /\ a.s = b.s
    ELSE a.n * b.d = b.n * a.d
Comparable(a, b) == (a.k = "str" /\ b.k = "str") \/ (IsNumber(a) /\ IsNumber(b))

\* a in b of two str
Contains(a, b) == \E i \in 1..(Len(b) - Len(a) + 1) : SubSeq(b, i, i + Len(a) - 1) = a

\* the first exception among the values, or NoValue
FirstStop(items) ==
    IF \E i \in 1..Len(items) : Stops(items[i])
    THEN items[Min({i \in 1..Len(items) : Stops(items[i])})]
    ELSE NoValue

\* x + y, x * y of two numbers: an int when both are int or bool
Arith(x, y, n, d) ==
    IF x.k = "float" \/ y.k = "float" THEN VFloat(n, d) ELSE VInt(n)

\* _function_sum
RECURSIVE FunctionSum(_)
FunctionSum(items_list) ==
    IF items_list = <<>> THEN VInt(0)
    ELSE LET rest == FunctionSum(SubSeq(items_list, 1, Len(items_list) - 1))
             item == ToFloat(items_list[Len(items_list)])
         IN IF Stops(rest) THEN rest
            ELSE IF Stops(item) THEN item
            ELSE VFloat(rest.n * item.d + item.n * rest.d, rest.d * item.d)

\* _function_product
RECURSIVE FunctionProduct(_)
FunctionProduct(items_list) ==
    IF items_list = <<>> THEN VInt(1)
    ELSE LET rest == FunctionProduct(SubSeq(items_list, 1, Len(items_list) - 1))
             item == ToFloat(items_list[Len(items_list)])
         IN IF Stops(rest) THEN rest
            ELSE IF Stops(item) THEN item
            ELSE VFloat(rest.n * item.n, rest.d * item.d)

\* _function_difference
FunctionDifference(items_list) ==
    IF Len(items_list) < 2 THEN Raise("IndexError")
    ELSE LET x == items_list[1]
             y == items_list[2]
         IN IF ~(IsNumber(x) /\ IsNumber(y)) THEN Raise("TypeError")
            ELSE Arith(x, y, x.n * y.d - y.n * x.d, x.d * y.d)

\* _function_quotient
FunctionQuotient(items_list) ==
    IF Len(items_list) < 2 THEN Raise("IndexError")
    ELSE LET x == items_list[1]
             y == items_list[2]
         IN IF ~(IsNumber(x) /\ IsNumber(y)) THEN Raise("TypeError")
            ELSE IF y.n = 0 THEN Raise("ZeroDivisionError")
            ELSE VFloat(x.n * y.d, x.d * y.n)

\* min(items_list), max(items_list): the first of the least (greatest) items
Extreme(items_list, least) ==
    IF items_list = <<>> THEN Raise("ValueError")
    ELSE IF \E i, j \in 1..Len(items_list) : ~Comparable(items_list[i], items_list[j])
         THEN Raise("TypeError")
    ELSE items_list[Min({i \in 1..Len(items_list) :
            \A j \in 1..Len(items_list) :
                IF least THEN ~Less(items_list[j], items_list[i])
                ELSE ~Less(items_list[i], items_list[j])})]

\* _function_average: sum(items_list) / len(items_list)
RECURSIVE PlainSum(_)
PlainSum(items_list) ==
    IF items_list = <<>> THEN VInt(0)
    ELSE LET rest == PlainSum(SubSeq(items_list, 1, Len(items_list) - 1))
             item == items_list[Len(items_list)]
         IN IF Stops(rest) THEN rest
            ELSE IF ~IsNumber(item) THEN Raise("TypeError")
            ELSE Arith(rest, item, rest.n * item.d + item.n * rest.d, rest.d * item.d)

FunctionAverage(items_list) ==
    LET total == PlainSum(items_list)
    IN IF Stops(total) THEN total
       ELSE IF items_list = <<>> THEN Raise("ZeroDivisionError")
       ELSE VFloat(total.n, total.d * Len(items_list))

\* _function_and, _function_or, _function_not
FunctionAnd(items_list) == VBool(\A i \in 1..Len(items_list) : Truthy(items_list[i]))
FunctionOr(items_list) == VBool(\E i \in 1..Len(items_list) : Truthy(items_list[i]))
FunctionNot(items_list) ==
    IF items_list = <<>> THEN Raise("IndexError") ELSE VBool(~Truthy(items_list[1]))

\* _function_count
FunctionCount(items_list) == VInt(Len(items_list))

\* _function_concatenate: ''.join(items_list)
FunctionConcatenate(items_list) ==
    IF \E i \in 1..Len(items_list) : items_list[i].k # "str" THEN Raise("TypeError")
    ELSE VStr(Flatten([i \in 1..Len(items_list) |-> items_list[i].s]))

\* _function_contains, _function_not_contains: items_list[0] in items_list[1]
FunctionContains(items_list, negated) ==
    IF Len(items_list) < 2 THEN Raise("IndexError")
    ELSE IF items_list[1].k # "str" \/ items_list[2].k # "str" THEN Raise("TypeError")
    ELSE VBool(Contains(items_list[1].s, items_list[2].s) # negated)

\* _function_greater_than, _function_less_than, ..._or_equal_to
FunctionOrder(items_list, op) ==
    IF Len(items_list) < 2 THEN Raise("IndexError")
    ELSE LET x == items_list[1]
             y == items_list[2]
         IN IF ~Comparable(x, y) THEN Raise("TypeError")
            ELSE VBool(CASE op = ">" -> Less(y, x)
                         [] op = "<" -> Less(x, y)
                         [] op = ">=" -> ~Less(x, y)
                         [] op = "<=" -> ~Less(y, x))

\* _function_equal_to, _function_not_equal_to
FunctionEqualTo(items_list, negated) ==
    IF Len(items_list) < 2 THEN Raise("IndexError")
    ELSE VBool(Equal(items_list[1], items_list[2]) # negated)

\* _function_if: items_list[2] if items_list[0] else items_list[1]
FunctionIf(items_list) ==
    IF items_list = <<>> THEN Raise("IndexError")
    ELSE IF Truthy(items_list[1])
         THEN (IF Len(items_list) < 3 THEN Raise("IndexError") ELSE items_list[3])
    ELSE IF Len(items_list) < 2 THEN Raise("IndexError") ELSE items_list[2]

\* _function_lookup: the body is a stub that gives back its first argument
FunctionLookup(items_list) ==
    IF items_list = <<>> THEN Raise("IndexError") ELSE items_list[1]

\* _function_identity of a list
FunctionIdentity(items_list) ==
    IF items_list = <<>> THEN Raise("IndexError") ELSE items_list[1]

\* the if/elif chain of process_function for a function_handle that is a key
\* of a dict
Dispatch(function_handle, v) ==
    CASE function_handle \in {<<"S","U","M">>, <<"+">>} -> FunctionSum(v)
      [] function_handle \in {<<"D","I","F","F","E","R","E","N","C","E">>, <<"-">>} ->
            FunctionDifference(v)
      [] function_handle \in {<<"P","R","O","D","U","C","T">>, <<"*">>} -> FunctionProduct(v)
      [] function_handle = <<"M","I","N">> -> Extreme(v, TRUE)
      [] function_handle = <<"M","A","X">> -> Extreme(v, FALSE)
      [] function_handle = <<"M","E","A","N">> -> FunctionAverage(v)
      [] function_handle = <<"I","F">> -> FunctionIf(v)
      [] function_handle = <<"L","O","O","K","U","P">> -> FunctionLookup(v)
      [] function_handle \in {<<"Q","U","O","T","I","E","N","T">>, <<"/">>} ->
            FunctionQuotient(v)
      [] function_handle \in {<<"A","N","D">>, <<"&","&">>} -> FunctionAnd(v)
      [] function_handle \in {<<"O","R">>, <<"|","|">>} -> FunctionOr(v)
      [] function_handle = <<"N","O","T">> -> FunctionNot(v)
      [] function_handle = <<"C","O","U","N","T">> -> FunctionCount(v)
      [] function_handle = <<"C","O","N","C","A","T","E","N","A","T","E">> ->
            FunctionConcatenate(v)
      [] function_handle = <<"C","O","N","T","A","I","N","S">> -> FunctionContains(v, FALSE)
      [] function_handle = <<"N","O","T","_","C","O","N","T","A","I","N","S">> ->
            FunctionContains(v, TRUE)
      [] function_handle = <<">">> -> FunctionOrder(v, ">")
      [] function_handle = <<"<">> -> FunctionOrder(v, "<")
      [] function_handle = <<">", "=">> -> FunctionOrder(v, ">=")
      [] function_handle = <<"<", "=">> -> FunctionOrder(v, "<=")
      [] function_handle = <<"=">> -> FunctionEqualTo(v, FALSE)
      [] function_handle = <<"!", "=">> -> FunctionEqualTo(v, TRUE)
      [] OTHER -> Raise("ValueError")

-----------------------------------------------------------------------------
(* compute.py: calc.  The documents of "data_items" are numbered in the      *)
(* order they were created; document i has the _id DocIds[i].                *)

DocIds == <<"d1", "d2", "d3", "d4", "d5", "d6">>

\* couchdb_client.get_document of compute.py: the number of the document, 0
\* for None.  None and "None" are the _id of no document.
GetDocument(doc_id) ==
    IF \E i \in 1..Len(data_items) : DocIds[i] = doc_id
    THEN CHOOSE i \in 1..Len(data_items) : DocIds[i] = doc_id
    ELSE 0

\* couchdb_client.db.find({"selector": {"parent_entity_id": entity["_id"]}})
Children(e) ==
    SelectSeq([i \in 1..Len(data_items) |-> i],
              LAMBDA i : data_items[i].parent_entity_id = DocIds[e])

\* str(attribute["value"]) of the first attribute of the document with the
\* attribute_definition_id (the loops that break)
FirstValue(doc, uuid) ==
    LET hits == {i \in 1..Len(doc.attributes) :
                    doc.attributes[i].attribute_definition_id = uuid}
    IN IF hits = {} THEN <<>> ELSE <<VStr(doc.attributes[Min(hits)].value)>>

\* ... and of every such attribute (the loop that does not)
EveryValue(doc, uuid) ==
    LET hits == SelectSeq(doc.attributes, LAMBDA a : a.attribute_definition_id = uuid)
    IN [i \in 1..Len(hits) |-> VStr(hits[i].value)]

\* re.search(r"(.*?)(<uuid>)", item): the place of the first uuid, 0 for none
FirstUuid(item) ==
    IF \E i \in 1..Len(item) : item[i] \in UuidSet
    THEN Min({i \in 1..Len(item) : item[i] \in UuidSet})
    ELSE 0

RECURSIVE Calc(_, _, _, _)
RECURSIVE GetValues(_, _, _, _, _)
RECURSIVE ProcessFunction(_, _, _, _, _)

\* get_values.match_uuid: the values it appends to value_list, the last of
\* them the exception if one is raised.  calls holds the (entity,
\* computation_definition_id) of the calc calls on the stack.  targets are
\* the entities calc is called for: the entity itself behind c_, its children
\* behind _c_.
MatchUuid(item, template_id, e, parent_entity, calls) ==
    LET at == FirstUuid(item)
        prefix == SubSeq(item, 1, at - 1)
        uuid == item[at]
        targets == IF prefix = <<"c", "_">> THEN <<e>> ELSE Children(e)
    IN IF at = 0 THEN <<VStr(item)>>
       \* print(f"parent_entity_id: {parent_entity['_id']}") with no parent
       ELSE IF parent_entity = 0 THEN <<Raise("TypeError")>>
       ELSE IF prefix = <<>>
            THEN FirstValue(data_items[parent_entity], uuid)
                 \o FirstValue(data_items[e], uuid)
       ELSE IF prefix = <<"_">>
            THEN Flatten([i \in 1..Len(targets) |->
                            EveryValue(data_items[targets[i]], uuid)])
       ELSE IF prefix \in {<<"c", "_">>, <<"_", "c", "_">>}
            THEN [i \in 1..Len(targets) |-> Calc(template_id, targets[i], uuid, calls)]
       ELSE <<Raise("ValueError")>>

\* get_values: value_list, or the exception that ends the loop
GetValues(function_list, template_id, e, parent_entity, calls) ==
    Flatten([i \in 1..Len(function_list) |->
        IF function_list[i].t = "str"
        THEN MatchUuid(function_list[i].s, template_id, e, parent_entity, calls)
        ELSE IF function_list[i].t = "dict"
             THEN <<ProcessFunction(function_list[i], template_id, e, parent_entity,
                                    calls)>>
        ELSE <<Raise("ValueError")>>])

\* process_function, from function_handle and function_list_values on: the
\* function_handle is None unless the portion is a dict
Perform(is_dict, function_handle, function_list_values) ==
    IF Stops(FirstStop(function_list_values)) THEN FirstStop(function_list_values)
    ELSE IF is_dict THEN Dispatch(function_handle, function_list_values)
    ELSE FunctionIdentity(function_list_values)

\* _function_identity of a value that is no list: str(items_list)
IdentityOfValue(value) == IF Stops(value) THEN value ELSE VStr(ToStr(value))

\* process_function
ProcessFunction(formula_code_portion, template_id, e, parent_entity, calls) ==
    IF formula_code_portion.t \in {"str", "dict"}
    THEN Perform(formula_code_portion.t = "dict", formula_code_portion.s,
                 GetValues(IF formula_code_portion.t = "str"
                           THEN <<formula_code_portion>> ELSE formula_code_portion.l,
                           template_id, e, parent_entity, calls))
    ELSE IF formula_code_portion.t = "list"
    THEN IF formula_code_portion.l = <<>> THEN Raise("IndexError")
         ELSE IdentityOfValue(ProcessFunction(formula_code_portion.l[1], template_id, e,
                                              parent_entity, calls))
    ELSE Raise("ValueError")

\* find_calculation_by_id as get_calculation calls it for calc
FormulaCodeOf(template_id, computation_definition_id) ==
    FindCalculationById(structure[template_id].trunk, computation_definition_id)

\* calc(template, entity, computation_definition_id), entity the document
\* numbered e.  The call reads the store and nothing else, so that a call
\* entered with the arguments of a call on the stack goes the same way again:
\* the calls nest until the interpreter's recursion limit ends them.
Calc(template_id, e, computation_definition_id, calls) ==
    IF <<e, computation_definition_id>> \in calls THEN RecursionError
    \* get_calculation: 404 "Calculation not found"
    ELSE IF ~FormulaCodeOf(template_id, computation_definition_id).found
         THEN Raise("HTTPException")
    ELSE ProcessFunction(
            Lst(FormulaCodeOf(template_id, computation_definition_id).node.formula_code),
            template_id, e, GetDocument(data_items[e].parent_entity_id),
            calls \cup {<<e, computation_definition_id>>})

-----------------------------------------------------------------------------
(* The requests the model sends *)

Threads == {1, 2}

TemplateNames == {<<"T", "a">>, <<"T", "b">>}
ElementNames == {<<"a">>, <<"x">>}
EntityNames == {<<"k">>}

\* .a   .x   .x + 1   ..a
Formulas ==
    { <<".", "a">>, <<".", "x">>, <<".", "x", " ", "+", " ", "1">>, <<".", ".", "a">> }

\* an id no element has
UnknownId == "u0"

AttributeIdsOf(entity) == UNION {Ids(e.attributes) : e \in EntitiesOf(entity)}
CalculationIdsOf(entity) == UNION {Ids(e.calculations) : e \in EntitiesOf(entity)}
EntityIdsOf(entity) == {e.id : e \in EntitiesOf(entity)}

\* the ids a request may name: those of the template's elements of the kind
\* the route looks for, and an id it will not find
EntityIds(tid) ==
    (IF tid \in 1..Len(structure) THEN EntityIdsOf(structure[tid].trunk) ELSE {})
        \cup {UnknownId}
AttributeIds(tid) ==
    (IF tid \in 1..Len(structure) THEN AttributeIdsOf(structure[tid].trunk) ELSE {})
        \cup {UnknownId}
CalculationIds(tid) ==
    (IF tid \in 1..Len(structure) THEN CalculationIdsOf(structure[tid].trunk) ELSE {})
        \cup {UnknownId}
ElementIds(tid) == EntityIds(tid) \cup AttributeIds(tid) \cup CalculationIds(tid)

Exists(tid) == tid \in 1..Len(structure)

\* no template document
NoTemplate == [name |-> <<>>, status |-> "none", source_id |-> 0, trunk |-> NoEntity]

\* a worker thread that serves no publish_template request.  template is the
\* document the request read, t the document its loop read; stale and t_stale
\* say that the document was written since, so that the _rev held is not the
\* current one.
Idle == [pc |-> "idle", template_id |-> 0, template |-> NoTemplate, stale |-> FALSE,
         ids |-> <<>>, i |-> 0, t |-> NoTemplate, t_stale |-> FALSE]
\* a worker thread that runs no parse_formula call.  stack holds the parent
\* lists of the _add_to_level calls in progress, the innermost last.
NoParse == [pc |-> "idle", formula |-> <<>>, part_list |-> <<>>, stack |-> <<>>,
            result |-> <<>>, calls |-> 0]
\* no get_entity_list request served yet.  values holds the "value" of the
\* calculations of the response, raised the exception that ended the request.
NoEval == [template_id |-> 0, entity_definition_id |-> "null", include_deleted |-> FALSE,
           code |-> 0, values |-> <<>>, raised |-> NoValue]

Init ==
    /\ structure = <<>>
    /\ data_items = <<>>
    /\ nextId = 0
    /\ last = [op |-> "none", tid |-> 0, code |-> 0, verdict |-> "none", write |-> FALSE]
    /\ pub = [p \in Threads |-> Idle]
    /\ part_idx = 0
    /\ par = [p \in Threads |-> NoParse]
    /\ ev = NoEval

Response(op, tid, out) ==
    [op |-> op, tid |-> tid, code |-> out.code, verdict |-> out.verdict,
     write |-> out.write]

\* a route that reads one template, changes it and writes it back; fresh is the
\* number of uuid4 values the stored change keeps
Serve(op, tid, out, fresh) ==
    /\ out.write => nextId + fresh <= MaxIds
    /\ structure' = IF out.write THEN [structure EXCEPT ![tid] = out.template]
                    ELSE structure
    /\ nextId' = IF out.write THEN nextId + fresh ELSE nextId
    /\ last' = Response(op, tid, out)
    /\ UNCHANGED <<data_items, pub, part_idx, par, ev>>

\* get_document gave None: 404 "Template not found"
NotFoundResponse(op, tid) ==
    /\ last' = [op |-> op, tid |-> tid, code |-> 404, verdict |-> "none",
                write |-> FALSE]
    /\ UNCHANGED <<structure, data_items, nextId, pub, part_idx, par, ev>>

create_template ==
    \E name \in TemplateNames, source \in 0..Len(structure) :
        LET out == CreateTemplate(structure, name, source, nextId)
            fresh == IF source = 0 THEN 1 ELSE CountIds(structure[source].trunk)
        IN /\ Len(structure) < MaxTemplates
           /\ out.write => nextId + fresh <= MaxIds
           /\ structure' = IF out.write THEN Append(structure, out.template) ELSE structure
           /\ nextId' = IF out.write THEN nextId + fresh ELSE nextId
           /\ last' = Response("create_template", Len(structure'), out)
           /\ UNCHANGED <<data_items, pub, part_idx, par, ev>>

add_entity ==
    \E tid \in 1..MaxTemplates, name \in EntityNames : \E parent \in EntityIds(tid) :
        IF Exists(tid)
        THEN Serve("add_entity", tid,
                   AddEntity(structure[tid], parent, name, Uuids[nextId + 1]), 1)
        ELSE NotFoundResponse("add_entity", tid)

add_attribute_to_entity ==
    \E tid \in 1..MaxTemplates, name \in ElementNames : \E parent \in EntityIds(tid) :
        IF Exists(tid)
        THEN Serve("add_attribute_to_entity", tid,
                   AddAttributeToEntity(structure[tid], parent, name, Uuids[nextId + 1]), 1)
        ELSE NotFoundResponse("add_attribute_to_entity", tid)

add_calculation_to_entity ==
    \E tid \in 1..MaxTemplates, name \in ElementNames, formula \in Formulas :
      \E parent \in EntityIds(tid) :
        IF Exists(tid)
        THEN Serve("add_calculation_to_entity", tid,
                   AddCalculationToEntity(structure[tid], parent, name, formula,
                                          Uuids[nextId + 1]), 1)
        ELSE NotFoundResponse("add_calculation_to_entity", tid)

update_attribute ==
    \E tid \in 1..MaxTemplates, name \in ElementNames \cup {Absent} :
      \E id \in AttributeIds(tid) :
        IF Exists(tid)
        THEN Serve("update_attribute", tid, UpdateAttribute(structure[tid], id, name), 0)
        ELSE NotFoundResponse("update_attribute", tid)

update_calculation ==
    \E tid \in 1..MaxTemplates, name \in ElementNames \cup {Absent},
       formula \in Formulas \cup {Absent} :
      \E id \in CalculationIds(tid) :
        IF Exists(tid)
        THEN Serve("update_calculation", tid,
                   UpdateCalculation(structure[tid], id, name, formula), 0)
        ELSE NotFoundResponse("update_calculation", tid)

update_template ==
    \E tid \in 1..MaxTemplates, name \in TemplateNames \cup {Absent} :
        IF Exists(tid)
        THEN Serve("update_template", tid,
                   UpdateTemplate(structure, structure[tid], name), 0)
        ELSE NotFoundResponse("update_template", tid)

update_entity ==
    \E tid \in 1..MaxTemplates, name \in EntityNames \cup {Absent} :
      \E id \in EntityIds(tid) :
        IF Exists(tid)
        THEN Serve("update_entity", tid, UpdateEntity(structure[tid], id, name), 0)
        ELSE NotFoundResponse("update_entity", tid)

delete_element ==
    \E tid \in 1..MaxTemplates : \E id \in ElementIds(tid) :
        IF Exists(tid)
        THEN Serve("delete_element", tid, DeleteElement(structure[tid], id), 0)
        ELSE NotFoundResponse("delete_element", tid)

copy_attribute ==
    \E src \in 1..MaxTemplates, tid \in 1..MaxTemplates :
      \E id \in AttributeIds(src), target \in EntityIds(tid) :
        IF Exists(src) /\ (Exists(tid) \/ ~FindAttributeById(structure[src].trunk, id).found)
        THEN Serve("copy_attribute", tid,
                   CopyAttribute(structure[src], id,
                                 IF Exists(tid) THEN structure[tid] ELSE structure[src],
                                 target, Uuids[nextId + 1]), 1)
        ELSE NotFoundResponse("copy_attribute", tid)

copy_entity ==
    \E src \in 1..MaxTemplates, tid \in 1..MaxTemplates :
      \E id \in EntityIds(src), target \in EntityIds(tid) :
        IF Exists(src) /\ (Exists(tid) \/ ~FindEntityById(structure[src].trunk, id).found
                                       \/ id = structure[src].trunk.id)
        THEN Serve("copy_entity", tid,
                   CopyEntity(structure[src], id,
                              IF Exists(tid) THEN structure[tid] ELSE structure[src],
                              target, Uuids[nextId + 1]), 1)
        ELSE NotFoundResponse("copy_entity", tid)

\* publish_template served with no other request in between
publish_template ==
    \E tid \in 1..MaxTemplates :
        IF ~Exists(tid) THEN NotFoundResponse("publish_template", tid)
        ELSE IF structure[tid].status # "Draft"
        THEN /\ last' = [op |-> "publish_template", tid |-> tid, code |-> 400,
                         verdict |-> "none", write |-> FALSE]
             /\ UNCHANGED <<structure, data_items, nextId, pub, part_idx, par, ev>>
        ELSE /\ structure' = [Deprecate(structure) EXCEPT ![tid].status = "Published"]
             /\ data_items' = Append(data_items, TrunkInstance(tid, structure[tid]))
             /\ last' = [op |-> "publish_template", tid |-> tid, code |-> 200,
                         verdict |-> "none", write |-> TRUE]
             /\ UNCHANGED <<nextId, pub, part_idx, par, ev>>

Next ==
    \/ create_template
    \/ add_entity
    \/ add_attribute_to_entity
    \/ add_calculation_to_entity
    \/ update_attribute
    \/ update_calculation
    \/ update_template
    \/ update_entity
    \/ delete_element
    \/ copy_attribute
    \/ copy_entity
    \/ publish_template

Spec == Init /\ [][Next]_vars

-----------------------------------------------------------------------------
(* publish_template, one store access at a time.  The routes are plain "def" *)
(* functions, which the server runs on a pool of worker threads; each thread *)
(* here serves one publish_template request at a time.                       *)

Respond(op, tid, code, write) ==
    last' = [op |-> op, tid |-> tid, code |-> code, verdict |-> "none", write |-> write]

\* the copies of document doc_id the threads hold once thread p has written
\* it: every copy but the one written from has an old _rev
Written(p, doc_id, from_t) ==
    [q \in Threads |->
        [pub[q] EXCEPT
            !.stale = @ \/ (pub[q].pc # "idle" /\ pub[q].template_id = doc_id
                             /\ (q # p \/ from_t)),
            !.t_stale = @ \/ (pub[q].pc = "deprecate" /\ pub[q].ids[pub[q].i] = doc_id
                               /\ (q # p \/ ~from_t))]]

\* template = couchdb_client.get_document(template_id) and the two checks
publish_template_get ==
    \E p \in Threads, tid \in 1..MaxTemplates :
        /\ pub[p].pc = "idle"
        /\ IF ~Exists(tid)
           THEN Respond("publish_template", tid, 404, FALSE) /\ UNCHANGED pub
           ELSE IF structure[tid].status # "Draft"
           THEN Respond("publish_template", tid, 400, FALSE) /\ UNCHANGED pub
           ELSE /\ pub' = [pub EXCEPT ![p] = [Idle EXCEPT !.pc = "iter",
                                !.template_id = tid, !.template = structure[tid]]]
                /\ UNCHANGED last
        /\ UNCHANGED <<structure, data_items, nextId, part_idx, par, ev>>

\* for doc_id in couchdb_client.db: the ids of the documents there are now
publish_template_iter ==
    \E p \in Threads :
        /\ pub[p].pc = "iter"
        /\ pub' = [pub EXCEPT ![p].pc = "loop", ![p].i = 1,
                              ![p].ids = [j \in 1..Len(structure) |-> j]]
        /\ UNCHANGED <<structure, data_items, nextId, last, part_idx, par, ev>>

\* t = couchdb_client.get_document(doc_id) and the test of its status
publish_template_loop ==
    \E p \in Threads :
        /\ pub[p].pc = "loop"
        /\ pub' = IF pub[p].i > Len(pub[p].ids)
                  THEN [pub EXCEPT ![p].pc = "update"]
                  ELSE IF structure[pub[p].ids[pub[p].i]].status = "Published"
                  THEN [pub EXCEPT ![p].pc = "deprecate", ![p].t_stale = FALSE,
                                   ![p].t = structure[pub[p].ids[pub[p].i]]]
                  ELSE [pub EXCEPT ![p].i = @ + 1]
        /\ UNCHANGED <<structure, data_items, nextId, last, part_idx, par, ev>>

\* t["status"] = "Deprecated"; couchdb_client.update_document(doc_id, t):
\* the store refuses a document whose _rev is not the current one, and the
\* exception ends the request
publish_template_deprecate ==
    \E p \in Threads :
        LET doc_id == pub[p].ids[pub[p].i] IN
        /\ pub[p].pc = "deprecate"
        /\ IF pub[p].t_stale
           THEN /\ pub' = [pub EXCEPT ![p] = Idle]
                /\ Respond("publish_template", pub[p].template_id, 500, FALSE)
                /\ UNCHANGED structure
           ELSE /\ structure' = [structure EXCEPT
                                    ![doc_id] = [pub[p].t EXCEPT !.status = "Deprecated"]]
                /\ pub' = [Written(p, doc_id, TRUE) EXCEPT ![p].pc = "loop",
                                                           ![p].i = @ + 1]
                /\ UNCHANGED last
        /\ UNCHANGED <<data_items, nextId, part_idx, par, ev>>

\* template["status"] = "Published"; couchdb_client.update_document(...)
publish_template_update ==
    \E p \in Threads :
        /\ pub[p].pc = "update"
        /\ IF pub[p].stale
           THEN /\ pub' = [pub EXCEPT ![p] = Idle]
                /\ Respond("publish_template", pub[p].template_id, 500, FALSE)
                /\ UNCHANGED structure
           ELSE /\ structure' = [structure EXCEPT ![pub[p].template_id] =
                                    [pub[p].template EXCEPT !.status = "Published"]]
                /\ pub' = [Written(p, pub[p].template_id, FALSE) EXCEPT ![p].pc = "data"]
                /\ UNCHANGED last
        /\ UNCHANGED <<data_items, nextId, part_idx, par, ev>>

\* couchdb_dataset_client.create_document(trunk_entity) and the response
publish_template_data ==
    \E p \in Threads :
        /\ pub[p].pc = "data"
        /\ data_items' = Append(data_items,
                                TrunkInstance(pub[p].template_id, pub[p].template))
        /\ pub' = [pub EXCEPT ![p] = Idle]
        /\ Respond("publish_template", pub[p].template_id, 200, TRUE)
        /\ UNCHANGED <<structure, nextId, part_idx, par, ev>>

NextPublish ==
    \/ create_template
    \/ publish_template_get
    \/ publish_template_iter
    \/ publish_template_loop
    \/ publish_template_deprecate
    \/ publish_template_update
    \/ publish_template_data

SpecPublish == Init /\ [][NextPublish]_vars

-----------------------------------------------------------------------------
(* Properties of the stored templates *)

\* every str leaf of a formula_code, at any depth
RECURSIVE Leaves(_)
Leaves(formula_code) ==
    UNION {IF formula_code[i].t = "str" THEN {formula_code[i].s}
           ELSE IF formula_code[i].t \in {"dict", "list"} THEN Leaves(formula_code[i].l)
           ELSE IF formula_code[i].t = "tuple" THEN Leaves(formula_code[i].l[1].l)
           ELSE {} : i \in 1..Len(formula_code)}

\* whether None stands somewhere in a formula_code
RECURSIVE HasNone(_)
HasNone(formula_code) ==
    \E i \in 1..Len(formula_code) :
        \/ formula_code[i].t = "none"
        \/ formula_code[i].t \in {"dict", "list"} /\ HasNone(formula_code[i].l)

\* the ids a formula_code refers to: the leaves that are a uuid behind one of
\* the resolver's prefixes
Prefixes == {<<>>, <<"c", "_">>, <<"_">>, <<"_", "c", "_">>}
CalcPrefixes == {<<"c", "_">>, <<"_", "c", "_">>}
RefsWith(formula_code, prefixes) ==
    {u \in UuidSet : \E pre \in prefixes : (pre \o <<u>>) \in Leaves(formula_code)}

\* the calculations of a tree, each with the entity that holds it
CalculationsOf(trunk) ==
    UNION {{[calculation |-> e.calculations[i], entity |-> e] :
                i \in 1..Len(e.calculations)} :
           e \in {f \in EntitiesOf(trunk) : "calculations" \in f.keys}}

\* the dependency graph of the stored tree: X -> Y when Y's id stands behind
\* c_ or _c_ anywhere in X's formula_code
DependsOn(trunk) ==
    UNION {{<<c.calculation.id, y>> :
                y \in RefsWith(c.calculation.formula_code, CalcPrefixes)} :
           c \in CalculationsOf(trunk)}

RECURSIVE ReachFrom(_, _)
ReachFrom(edges, seen) ==
    LET more == seen \cup {e[2] : e \in {f \in edges : f[1] \in seen}}
    IN IF more = seen THEN seen ELSE ReachFrom(edges, more)

Reaches(edges, x, y) == y \in ReachFrom(edges, {e[2] : e \in {f \in edges : f[1] = x}})

Stored == {structure[t] : t \in 1..Len(structure)}

CommitOps == {"add_calculation_to_entity", "update_calculation"}

EditOps == {"add_entity", "add_attribute_to_entity", "add_calculation_to_entity",
            "update_attribute", "update_calculation", "update_template",
            "update_entity", "delete_element", "copy_attribute", "copy_entity"}

\* C1: in every stored template the calculation dependency graph, with the
\* references inside function and operator nodes counted, has no cycle through
\* two or more calculations.
C1_NoCycleStored ==
    \A template \in Stored :
        \A x, y \in CalculationIdsOf(template.trunk) :
            x # y => ~(Reaches(DependsOn(template.trunk), x, y)
                        /\ Reaches(DependsOn(template.trunk), y, x))

\* C2: a commit request (add_calculation_to_entity, update_calculation) that
\* is not answered with success leaves the store as it was, and one that
\* writes the store does so after check_formula_code has passed.
C2_CommitAtomic ==
    [][last'.op \in CommitOps =>
          /\ last'.code \notin {200, 201} => structure' = structure
          /\ last'.write => last'.verdict = "valid"]_vars

\* C3: every stored calculation's formula_code is what parsing its formula and
\* resolving it against the tree as stored gives.
C3_FormulaCodeCurrent ==
    \A template \in {t \in Stored : t.source_id = 0} :
        \A c \in CalculationsOf(template.trunk) :
            c.calculation.formula_code = Resolve(c.calculation.formula, c.entity, template)

\* C4: update_calculation writes the template exactly when check_formula_code
\* passed; a valid update is answered 200, an invalid one 400.
C4_UpdatePersistsIffValid ==
    last.op = "update_calculation" /\ last.verdict # "none" =>
        /\ last.write <=> last.verdict = "valid"
        /\ last.verdict = "valid" => last.code = 200
        /\ last.verdict = "invalid" => last.code = 400

\* C5: no stored formula_code holds None where a relative name was, and
\* add_calculation_to_entity stores no calculation with such a leaf.
C5_NoNullLeafStored ==
    \A template \in Stored :
        \A c \in CalculationsOf(template.trunk) : ~HasNone(c.calculation.formula_code)

\* C6: every id the resolver puts into a stored calculation's formula_code is
\* in the scope set get_scope computes for that calculation.
C6_ResolvedInScope ==
    \A template \in Stored :
        \A c \in CalculationsOf(template.trunk) :
            LET scope == GetScope(c.calculation, template.trunk, c.calculation.id)
                code == Resolve(c.calculation.formula, c.entity, template)
            IN ~scope.raises /\ ~HasRaised(code) =>
                   RefsWith(code, Prefixes) \subseteq scope.scope

\* C10: a template whose status is not Draft keeps its name and its trunk in
\* every step, and an editing request on it is answered 400 or 404 and leaves
\* both databases as they were.
C10_NonDraftImmutable ==
    [][/\ \A t \in 1..Len(structure) :
             structure[t].status # "Draft" =>
                 /\ t \in 1..Len(structure')
                 /\ structure'[t].name = structure[t].name
                 /\ structure'[t].trunk = structure[t].trunk
       /\ (last'.op \in EditOps /\ last'.tid \in 1..Len(structure)
              /\ structure[last'.tid].status # "Draft") =>
                 /\ last'.code \in {400, 404}
                 /\ ~last'.write
                 /\ structure' = structure
                 /\ data_items' = data_items]_vars

\* an editing request on a Deprecated template that holds an attribute was
\* answered 400
C10_Witness ==
    /\ last.op = "delete_element"
    /\ last.tid \in 1..Len(structure)
    /\ structure[last.tid].status = "Deprecated"
    /\ structure[last.tid].trunk.attributes # <<>>
    /\ last.code = 400

-----------------------------------------------------------------------------
(* parse_formula, one statement of _add_to_level at a time, on two worker    *)
(* threads that share the module-level part_idx                              *)

\* a + b   (a) * 2
ParseInputs ==
    { <<"a", " ", "+", " ", "b">>, <<"(", "a", ")", " ", "*", " ", "2">> }

\* "return parent": to the _add_to_level call that made this one, which
\* appends the list, or to parse_formula, which runs its last three lines
ReturnParent(call) ==
    LET n == Len(call.stack) IN
    IF n = 1
    THEN [call EXCEPT !.pc = "done", !.stack = <<>>,
                      !.result = ParseTopLevel(call.stack[1])]
    ELSE [call EXCEPT !.pc = "while",
                      !.stack = Append(SubSeq(call.stack, 1, n - 2),
                                       Append(call.stack[n - 1], Lst(call.stack[n])))]

\* parse_formula down to "part_idx = 0"
parse_formula ==
    \E p \in Threads, formula \in ParseInputs :
        /\ par[p].pc = "idle"
        /\ par[p].calls < MaxCalls
        /\ par' = [par EXCEPT ![p] = [par[p] EXCEPT !.pc = "while",
                        !.formula = formula, !.part_list = Parts(formula),
                        !.stack = <<<<>>>>, !.calls = @ + 1]]
        /\ part_idx' = 0
        /\ UNCHANGED <<structure, data_items, nextId, last, pub, ev>>

\* while part_idx < part_list_length, and "return parent" after the loop
add_to_level_while ==
    \E p \in Threads :
        /\ par[p].pc = "while"
        /\ par' = [par EXCEPT ![p] =
                      IF part_idx < Len(par[p].part_list)
                      THEN [par[p] EXCEPT !.pc = "part"]
                      ELSE ReturnParent(par[p])]
        /\ UNCHANGED <<structure, data_items, nextId, last, pub, part_idx, ev>>

\* part = part_list[part_idx] and the branch taken on it; the index is out
\* of range when another call has moved part_idx past the end of this list
add_to_level_part ==
    \E p \in Threads :
        LET call == par[p]
            n == Len(call.stack)
            part == call.part_list[part_idx + 1]
        IN /\ call.pc = "part"
           /\ IF part_idx >= Len(call.part_list)
              THEN /\ par' = [par EXCEPT ![p] = [call EXCEPT !.pc = "done",
                                    !.stack = <<>>, !.result = <<Raised>>]]
                   /\ UNCHANGED part_idx
              ELSE /\ part_idx' = part_idx + 1
                   /\ par' = [par EXCEPT ![p] =
                        IF part = <<"(">>
                        THEN [call EXCEPT !.pc = "while", !.stack = Append(@, <<>>)]
                        ELSE IF part = <<")">> THEN ReturnParent(call)
                        ELSE IF part = <<",">> THEN [call EXCEPT !.pc = "while"]
                        ELSE [call EXCEPT !.pc = "while",
                                          !.stack[n] = Append(@, Str(part))]]
           /\ UNCHANGED <<structure, data_items, nextId, last, pub, ev>>

\* the caller takes the tree parse_formula returned
parse_formula_return ==
    \E p \in Threads :
        /\ par[p].pc = "done"
        /\ par' = [par EXCEPT ![p] = [NoParse EXCEPT !.calls = par[p].calls]]
        /\ UNCHANGED <<structure, data_items, nextId, last, pub, part_idx, ev>>

NextParse ==
    \/ parse_formula
    \/ add_to_level_while
    \/ add_to_level_part
    \/ parse_formula_return

SpecParse == Init /\ [][NextParse]_vars

\* C8: a parse_formula call that has finished holds the tree parse_formula
\* gives for its text when it runs alone, whatever the other thread did in
\* between.
C8_ParseAsAlone ==
    \A p \in Threads :
        par[p].pc = "done" => par[p].result = ParseFormula(par[p].formula)

\* C9: at most one template has the status Published, whatever the order of
\* the store accesses of the publish_template requests in flight.
C9_AtMostOnePublished ==
    Cardinality({t \in 1..Len(structure) : structure[t].status = "Published"}) <= 1

-----------------------------------------------------------------------------
(* datasets.py.  Every attribute definition of the model is made by a        *)
(* request with data_type "integer", data_type_constraints                   *)
(* {"integer": {"min_value": 0, "max_value": 9}} and defaultvalue "0".       *)

\* documents in the "data_items" database
MaxItems == 3

DefaultValue == <<"0">>

\* int(value) of a str is defined: white space stripped, a sign, digits
IsIntStr(value) ==
    LET t == Strip(value)
        u == IF t # <<>> /\ t[1] \in {"-", "+"} THEN Tail(t) ELSE t
    IN u # <<>> /\ IsDigits(u)

\* validate_attribute_value, for data_type "integer"
ValidateAttributeValue(value) ==
    /\ IsIntStr(value)
    /\ LET num_value == FloatOfStr(value).n
       IN num_value >= 0 /\ num_value <= 9

InstanceAttribute(attribute_definition_id, value) ==
    [attribute_definition_id |-> attribute_definition_id, value |-> value]

\* create_entity: the loop over the attribute definitions.  code is 0 when
\* the loop ends without an exception.
RECURSIVE AttributeLoop(_, _, _, _)
AttributeLoop(attribute_definition_list, attribute_request_list, attribute_request_set, attributes) ==
    IF attribute_definition_list = <<>>
    THEN [code |-> 0, attribute_request_set |-> attribute_request_set,
          attributes |-> attributes]
    ELSE LET attribute_definition == Head(attribute_definition_list)
             hits == {j \in 1..Len(attribute_request_list) :
                        /\ attribute_request_list[j].attribute_definition_id
                                = attribute_definition.id
                        /\ attribute_definition.id \in attribute_request_set}
             attribute_request ==
                IF hits # {} THEN attribute_request_list[Min(hits)]
                ELSE attribute_request_list[Len(attribute_request_list)]
         IN IF hits # {}
            THEN IF ValidateAttributeValue(attribute_request.value)
                 THEN AttributeLoop(Tail(attribute_definition_list),
                        attribute_request_list,
                        attribute_request_set \ {attribute_definition.id},
                        Append(attributes, InstanceAttribute(attribute_definition.id,
                                                             attribute_request.value)))
                 ELSE [code |-> 400, attribute_request_set |-> attribute_request_set,
                       attributes |-> attributes]
            \* attribute_request was never bound: UnboundLocalError
            ELSE IF attribute_request_list = <<>>
                 THEN [code |-> 500, attribute_request_set |-> attribute_request_set,
                       attributes |-> attributes]
            ELSE AttributeLoop(Tail(attribute_definition_list), attribute_request_list,
                    attribute_request_set \ {attribute_request.attribute_definition_id},
                    Append(attributes, InstanceAttribute(attribute_definition.id,
                                                         DefaultValue)))

NoInstance ==
    [template_id |-> 0, entity_definition_id |-> "null", parent_entity_id |-> "null",
     is_deleted |-> FALSE, attributes |-> <<>>, calculations |-> <<>>]

Refuse(code) == [code |-> code, write |-> FALSE, doc |-> NoInstance]

\* create_entity
CreateEntity(requested_template_id, requested_entity_definition_id, requested_parent_entity_id, attribute_request_list) ==
    IF ~Exists(requested_template_id) THEN Refuse(404)
    ELSE LET template == structure[requested_template_id]
             result == FindEntityById(template.trunk, requested_entity_definition_id)
             entity_definition == result.node
             parent_entity_definition == result.parent
             parent_entity == GetDocument(requested_parent_entity_id)
             loop == AttributeLoop(entity_definition.attributes, attribute_request_list,
                        {attribute_request_list[j].attribute_definition_id :
                            j \in 1..Len(attribute_request_list)}, <<>>)
         IN IF template.status # "Published" THEN Refuse(400)
            \* entity_definition, parent_entity_definition = None
            ELSE IF ~result.found THEN Refuse(500)
            ELSE IF requested_parent_entity_id # "None" /\ parent_entity = 0
                 THEN Refuse(404)
            ELSE IF requested_parent_entity_id = "None"
                    /\ parent_entity_definition # NoEntity THEN Refuse(400)
            ELSE IF requested_parent_entity_id # "None"
                    /\ parent_entity_definition = NoEntity THEN Refuse(400)
            ELSE IF requested_parent_entity_id # "None"
                    /\ data_items[parent_entity].entity_definition_id
                            # parent_entity_definition.id THEN Refuse(400)
            ELSE IF "attributes" \notin entity_definition.keys THEN Refuse(500)
            ELSE IF loop.code # 0 THEN Refuse(loop.code)
            ELSE IF loop.attribute_request_set # {} THEN Refuse(400)
            ELSE [code |-> 200, write |-> TRUE,
                  doc |-> [template_id |-> requested_template_id,
                           entity_definition_id |-> requested_entity_definition_id,
                           parent_entity_id |-> requested_parent_entity_id,
                           is_deleted |-> FALSE, attributes |-> loop.attributes,
                           calculations |-> <<>>]]

\* get_entity_list, from the calc calls on: the "value" of every calculation
\* of every entity of the list, str(calculation_value), in the order they are
\* appended; the exception of a calc call ends the request
ListResponse(values) ==
    IF Stops(FirstStop(values))
    \* the HTTPException of get_calculation is the response, any other exception
    \* is one no handler catches
    THEN [code |-> IF FirstStop(values) = Raise("HTTPException") THEN 404 ELSE 500,
          values |-> <<>>, raised |-> FirstStop(values)]
    ELSE [code |-> 200, values |-> [i \in 1..Len(values) |-> VStr(ToStr(values[i]))],
          raised |-> NoValue]

\* the documents the query of get_entity_list finds: the selector without
\* include_deleted names a field no document has
FindEntities(template_id, entity_definition_id, include_deleted) ==
    IF include_deleted
    THEN SelectSeq([i \in 1..Len(data_items) |-> i],
            LAMBDA i : /\ data_items[i].template_id = template_id
                       /\ data_items[i].entity_definition_id = entity_definition_id)
    ELSE <<>>

\* get_entity_list with the default filter {}
GetEntityList(template_id, entity_definition_id, include_deleted) ==
    LET result == FindEntityById(structure[template_id].trunk, entity_definition_id)
        found == FindEntities(template_id, entity_definition_id, include_deleted)
        calculations == IF "calculations" \in result.node.keys
                        THEN result.node.calculations ELSE <<>>
    IN IF ~Exists(template_id)
       THEN [code |-> 404, values |-> <<>>, raised |-> NoValue]
       \* entity_definition, parent_entity = None
       ELSE IF ~result.found
       THEN [code |-> 500, values |-> <<>>, raised |-> Raise("TypeError")]
       ELSE IF "attributes" \notin result.node.keys
       THEN [code |-> 500, values |-> <<>>, raised |-> Raise("KeyError")]
       ELSE ListResponse(Flatten([i \in 1..Len(found) |->
                [c \in 1..Len(calculations) |->
                    Calc(template_id, found[i], calculations[c].id, {})]]))

-----------------------------------------------------------------------------
(* Evaluation.  The behaviours start from a published template that the      *)
(* routes of templates.py have stored: create_template, add_entity "k" under *)
(* the trunk, at most one add_attribute_to_entity "a", one or two            *)
(* add_calculation_to_entity under "k", then publish_template.               *)

WrittenBy(outs) == {out.template : out \in {o \in outs : o.write}}

\* the templates one more accepted add_calculation_to_entity under "k" gives
OneMoreCalculation(templates) ==
    UNION {WrittenBy({AddCalculationToEntity(template, template.trunk.entities[1].id,
                            name, formula, Uuids[CountIds(template.trunk) + 1]) :
                        name \in ElementNames, formula \in Formulas}) :
           template \in templates}

Authored ==
    LET created == CreateTemplate(<<>>, <<"T", "a">>, 0, 0).template
        with_entity == AddEntity(created, Uuids[1], <<"k">>, Uuids[2]).template
        with_attribute ==
            WrittenBy({AddAttributeToEntity(with_entity, parent, <<"a">>, Uuids[3]) :
                        parent \in {Uuids[1], Uuids[2]}})
        one == OneMoreCalculation({with_entity} \cup with_attribute)
    IN one \cup OneMoreCalculation(one)

InitCalc ==
    \E template \in Authored :
        /\ structure = <<[template EXCEPT !.status = "Published"]>>
        /\ data_items = <<TrunkInstance(1, template)>>
        /\ nextId = CountIds(template.trunk)
        /\ last = [op |-> "publish_template", tid |-> 1, code |-> 200,
                   verdict |-> "none", write |-> TRUE]
        /\ pub = [p \in Threads |-> Idle]
        /\ part_idx = 0
        /\ par = [p \in Threads |-> NoParse]
        /\ ev = NoEval

\* the attributes of a create_entity request: none, or one
AttributeRequests(tid) ==
    {<<>>} \cup {<<InstanceAttribute(id, value)>> :
                    id \in AttributeIds(tid), value \in {<<"2">>, <<"x">>}}

create_entity ==
    \E tid \in 1..MaxTemplates : \E definition \in EntityIds(tid),
            parent \in {"None", "d0"} \cup {DocIds[i] : i \in 1..Len(data_items)},
            attributes \in AttributeRequests(tid) :
        LET out == CreateEntity(tid, definition, parent, attributes)
        IN /\ out.write => Len(data_items) < MaxItems
           /\ data_items' = IF out.write THEN Append(data_items, out.doc) ELSE data_items
           /\ last' = [op |-> "create_entity", tid |-> tid, code |-> out.code,
                       verdict |-> "none", write |-> out.write]
           /\ UNCHANGED <<structure, nextId, pub, part_idx, par, ev>>

get_entity_list ==
    \E tid \in 1..MaxTemplates, include_deleted \in BOOLEAN :
        \E definition \in EntityIds(tid) :
            LET out == GetEntityList(tid, definition, include_deleted)
            IN /\ ev' = [template_id |-> tid, entity_definition_id |-> definition,
                         include_deleted |-> include_deleted, code |-> out.code,
                         values |-> out.values, raised |-> out.raised]
               /\ last' = [op |-> "get_entity_list", tid |-> tid, code |-> out.code,
                           verdict |-> "none", write |-> FALSE]
               /\ UNCHANGED <<structure, data_items, nextId, pub, part_idx, par>>

NextCalc ==
    \/ create_entity
    \/ get_entity_list

SpecCalc == InitCalc /\ [][NextCalc]_vars

\* C7: no calc call nests until the interpreter's recursion limit ends it: the
\* recursion through c_ and _c_ references is bounded by the evaluator.
C7_RecursionBounded == ev.raised # RecursionError

-----------------------------------------------------------------------------
(* Names among siblings.  The behaviours start from a Draft template that    *)
(* create_template and add_attribute_to_entity have stored (trunk and        *)
(* attribute "a"); nextId counts the uuid4 values drawn from there on.       *)

\* the template the two requests leave in the store
WithAttribute ==
    AddAttributeToEntity(CreateTemplate(<<>>, <<"T", "a">>, 0, 10).template,
                         Uuids[11], <<"a">>, Uuids[12]).template

InitCopy ==
    /\ structure = <<WithAttribute>>
    /\ data_items = <<>>
    /\ nextId = 0
    /\ last = [op |-> "add_attribute_to_entity", tid |-> 1, code |-> 201,
               verdict |-> "none", write |-> TRUE]
    /\ pub = [p \in Threads |-> Idle]
    /\ part_idx = 0
    /\ par = [p \in Threads |-> NoParse]
    /\ ev = NoEval

\* the schema operations on the attributes and the entities of a template
NextCopy ==
    \/ add_entity
    \/ add_attribute_to_entity
    \/ update_attribute
    \/ update_entity
    \/ delete_element
    \/ copy_attribute
    \/ copy_entity

SpecCopy == InitCopy /\ [][NextCopy]_vars

\* the names of the elements directly under an entity: its attributes, its
\* calculations and its child entities
SiblingNames(entity) ==
    [i \in 1..Len(entity.attributes) |-> entity.attributes[i].name]
        \o [i \in 1..Len(entity.calculations) |-> entity.calculations[i].name]
        \o [i \in 1..Len(entity.entities) |-> entity.entities[i].name]

\* C11: in every stored template no two elements directly under the same
\* entity (attributes, calculations, child entities) have the same name.
C11_SiblingNamesUnique ==
    \A template \in Stored :
        \A entity \in EntitiesOf(template.trunk) :
            \A i, j \in 1..Len(SiblingNames(entity)) :
                i # j => SiblingNames(entity)[i] # SiblingNames(entity)[j]

-----------------------------------------------------------------------------
(* datasets.py: delete_entity *)

\* the documents delete_entity_recursive reaches from document e: e and the
\* documents found by parent_entity_id beneath it
RECURSIVE Reached(_)
Reached(e) == {e} \cup UNION {Reached(Children(e)[i]) : i \in 1..Len(Children(e))}

\* a delete_entity_recursive that does not follow parent_entity_id
DeleteEntityAlone(e, is_deleted) ==
    [data_items EXCEPT ![e].is_deleted = is_deleted]

\* delete_entity_recursive (is_deleted True) and the function of the same name
\* in restore_entity (is_deleted False): the store after the calls
DeleteEntityRecursive(e, is_deleted) ==
    [i \in 1..Len(data_items) |->
        IF i \in Reached(e) THEN [data_items[i] EXCEPT !.is_deleted = is_deleted]
        ELSE data_items[i]]

\* delete_entity
DeleteEntity(entity_id) ==
    LET e == GetDocument(entity_id) IN
    IF e = 0 THEN [code |-> 404, write |-> FALSE, items |-> data_items]
    ELSE IF ~Exists(data_items[e].template_id)
    THEN [code |-> 404, write |-> FALSE, items |-> data_items]
    ELSE IF structure[data_items[e].template_id].status # "Published"
    THEN [code |-> 400, write |-> FALSE, items |-> data_items]
    ELSE [code |-> 200, write |-> TRUE, items |-> DeleteEntityRecursive(e, TRUE)]

-----------------------------------------------------------------------------
(* Evaluation of the function library.  The behaviours start from a          *)
(* published template that the routes of templates.py have stored, with the  *)
(* trunk instance publish_template created; instances are created beneath    *)
(* it, deleted, and listed with their calculations.  ev holds the response   *)
(* of get_entity_list while that request is the last one served.             *)

\* documents in the "data_items" database in these behaviours
MaxInstances == 4

\* IF(..p > 2, .b, .b * 2)
IfFormula ==
    <<"I", "F", "(", ".", ".", "p", " ", ">", " ", "2", ",", " ", ".", "b", ",", " ",
      ".", "b", " ", "*", " ", "2", ")">>
\* SUM(.m.b)   COUNT(.m.b)   CONCATENATE(.m.b)
SumOfNephews == <<"S", "U", "M", "(", ".", "m", ".", "b", ")">>
CountOfNephews == <<"C", "O", "U", "N", "T", "(", ".", "m", ".", "b", ")">>
JoinOfNephews ==
    <<"C", "O", "N", "C", "A", "T", "E", "N", "A", "T", "E", "(", ".", "m", ".", "b", ")">>
\* SUM(.m.y)   SUM(.k.b)   SUM(..p, .b)
SumOfNephewCalculations == <<"S", "U", "M", "(", ".", "m", ".", "y", ")">>
SumOfTrunkNephews == <<"S", "U", "M", "(", ".", "k", ".", "b", ")">>
SumWithUncle == <<"S", "U", "M", "(", ".", ".", "p", ",", " ", ".", "b", ")">>

\* the templates an accepted request leaves in the store, for each of the
\* templates it is sent to
AddedEntity(templates, parent, name, id) ==
    WrittenBy({AddEntity(t, parent, name, id) : t \in templates})
AddedAttribute(templates, parent, name, id) ==
    WrittenBy({AddAttributeToEntity(t, parent, name, id) : t \in templates})
AddedCalculation(templates, parent, name, formula, id) ==
    WrittenBy({AddCalculationToEntity(t, parent, name, formula, id) : t \in templates})

\* Trunk (u1) > k (u2), and Trunk (u1) > k (u2) > m (u3)
TwoLevels ==
    AddedEntity(WrittenBy({CreateTemplate(<<>>, <<"T", "a">>, 0, 0)}),
                Uuids[1], <<"k">>, Uuids[2])
ThreeLevels == AddedEntity(TwoLevels, Uuids[2], <<"m">>, Uuids[3])

\* k has the attribute p; m has the attribute b and the calculation c
IfTemplate ==
    AddedCalculation(
        AddedAttribute(AddedAttribute(ThreeLevels, Uuids[2], <<"p">>, Uuids[4]),
                       Uuids[3], <<"b">>, Uuids[5]),
        Uuids[3], <<"c">>, IfFormula, Uuids[6])

\* m has the attribute b; k has the calculations s, n and o over it
FanOutTemplate ==
    AddedCalculation(
        AddedCalculation(
            AddedCalculation(AddedAttribute(ThreeLevels, Uuids[3], <<"b">>, Uuids[4]),
                             Uuids[2], <<"s">>, SumOfNephews, Uuids[5]),
            Uuids[2], <<"n">>, CountOfNephews, Uuids[6]),
        Uuids[2], <<"o">>, JoinOfNephews, Uuids[7])

\* m has the attribute b and the calculation y = .b; k has the calculation s
FanOutCalcTemplate ==
    AddedCalculation(
        AddedCalculation(AddedAttribute(ThreeLevels, Uuids[3], <<"b">>, Uuids[4]),
                         Uuids[3], <<"y">>, <<".", "b">>, Uuids[5]),
        Uuids[2], <<"s">>, SumOfNephewCalculations, Uuids[6])

\* k has the attribute b; the trunk has the calculation s over it
TrunkFanOutTemplate ==
    AddedCalculation(AddedAttribute(TwoLevels, Uuids[2], <<"b">>, Uuids[3]),
                     Uuids[1], <<"s">>, SumOfTrunkNephews, Uuids[4])

\* the trunk has the attribute p; k has the attribute b and the calculation c
UncleTemplate ==
    AddedCalculation(
        AddedAttribute(AddedAttribute(TwoLevels, Uuids[1], <<"p">>, Uuids[3]),
                       Uuids[2], <<"b">>, Uuids[4]),
        Uuids[2], <<"c">>, SumWithUncle, Uuids[5])

EvalTemplates ==
    IfTemplate \cup FanOutTemplate \cup FanOutCalcTemplate \cup TrunkFanOutTemplate
        \cup UncleTemplate

InitEval ==
    \E template \in EvalTemplates :
        /\ structure = <<[template EXCEPT !.status = "Published"]>>
        /\ data_items = <<TrunkInstance(1, template)>>
        /\ nextId = CountIds(template.trunk)
        /\ last = [op |-> "publish_template", tid |-> 1, code |-> 200,
                   verdict |-> "none", write |-> TRUE]
        /\ pub = [p \in Threads |-> Idle]
        /\ part_idx = 0
        /\ par = [p \in Threads |-> NoParse]
        /\ ev = NoEval

\* the values a request gives an attribute
RequestValues(attribute_definition) ==
    IF attribute_definition.name = <<"p">> THEN {"1", "3"} ELSE {"2", "3"}

\* the attributes of a create_entity request for an entity definition: a
\* value for its attribute definition, if it has one
ValuedRequests(entity_definition) ==
    IF entity_definition.attributes = <<>> THEN {<<>>}
    ELSE {<<InstanceAttribute(entity_definition.attributes[1].id, <<value>>)>> :
            value \in RequestValues(entity_definition.attributes[1])}

\* the entity definition of an instance
DefinitionOf(doc) ==
    FindEntityById(structure[doc.template_id].trunk, doc.entity_definition_id).node

\* create_entity beneath an instance of the store, for one of the child
\* entities of its definition
create_child_entity ==
    \E parent \in 1..Len(data_items) :
      \E entity_definition \in SeqToSet(DefinitionOf(data_items[parent]).entities) :
        \E attributes \in ValuedRequests(entity_definition) :
            LET tid == data_items[parent].template_id
                out == CreateEntity(tid, entity_definition.id, DocIds[parent], attributes)
            IN /\ out.write => Len(data_items) < MaxInstances
               /\ data_items' = IF out.write THEN Append(data_items, out.doc)
                                ELSE data_items
               /\ last' = [op |-> "create_entity", tid |-> tid, code |-> out.code,
                           verdict |-> "none", write |-> out.write]
               /\ ev' = NoEval
               /\ UNCHANGED <<structure, nextId, pub, part_idx, par>>

delete_entity ==
    \E entity_id \in {DocIds[i] : i \in 1..Len(data_items)} :
        LET out == DeleteEntity(entity_id)
        IN /\ data_items' = out.items
           /\ last' = [op |-> "delete_entity", tid |-> 0, code |-> out.code,
                       verdict |-> "none", write |-> out.write]
           /\ ev' = NoEval
           /\ UNCHANGED <<structure, nextId, pub, part_idx, par>>

\* a get_entity_list that saves the entities it lists, with the values it
\* appended to their "calculations"
list_entities_storing ==
    \E tid \in 1..Len(structure), include_deleted \in BOOLEAN :
        \E definition \in EntityIdsOf(structure[tid].trunk) :
            LET out == GetEntityList(tid, definition, include_deleted)
                found == SeqToSet(FindEntities(tid, definition, include_deleted))
            IN /\ ev' = [template_id |-> tid, entity_definition_id |-> definition,
                         include_deleted |-> include_deleted, code |-> out.code,
                         values |-> out.values, raised |-> out.raised]
               /\ last' = [op |-> "get_entity_list", tid |-> tid, code |-> out.code,
                           verdict |-> "none", write |-> out.code = 200]
               /\ data_items' = [i \in 1..Len(data_items) |->
                                    IF out.code = 200 /\ i \in found
                                    THEN [data_items[i] EXCEPT !.calculations = out.values]
                                    ELSE data_items[i]]
               /\ UNCHANGED <<structure, nextId, pub, part_idx, par>>

\* get_entity_list for an entity definition of a stored template
list_entities ==
    \E tid \in 1..Len(structure), include_deleted \in BOOLEAN :
        \E definition \in EntityIdsOf(structure[tid].trunk) :
            LET out == GetEntityList(tid, definition, include_deleted)
            IN /\ ev' = [template_id |-> tid, entity_definition_id |-> definition,
                         include_deleted |-> include_deleted, code |-> out.code,
                         values |-> out.values, raised |-> out.raised]
               /\ last' = [op |-> "get_entity_list", tid |-> tid, code |-> out.code,
                           verdict |-> "none", write |-> FALSE]
               /\ UNCHANGED <<structure, data_items, nextId, pub, part_idx, par>>

NextEval ==
    \/ create_child_entity
    \/ delete_entity
    \/ list_entities

SpecEval == InitEval /\ [][NextEval]_vars

-----------------------------------------------------------------------------
(* IF *)

\* the float of the value an instance holds for an attribute definition
AttributeFloat(e, uuid) == ToFloat(FirstValue(data_items[e], uuid)[1])

\* the response lists, with the deleted ones, the instances of an entity
\* definition of the template whose calculation has the id and the formula
Answers(entity_definition_id, calculation_id, formula) ==
    /\ last.op = "get_entity_list"
    /\ ev.entity_definition_id = entity_definition_id
    /\ ev.include_deleted
    /\ FindCalculationById(structure[1].trunk, calculation_id).found
    /\ FindCalculationById(structure[1].trunk, calculation_id).node.formula = formula

\* what IF(..p > 2, .b, .b * 2) is to give for the instance e of "m": b of
\* the instance when p of its parent is above 2, twice b when it is not
IfExpected(e) ==
    LET p == AttributeFloat(GetDocument(data_items[e].parent_entity_id), Uuids[4])
        b == AttributeFloat(e, Uuids[5])
    IN IF p.n > 2 * p.d THEN b ELSE VFloat(2 * b.n, b.d)

\* C12: IF(condition, then, else) gives the value of its second argument when
\* the condition is true and of its third when it is false: the calculation
\* IF(..p > 2, .b, .b * 2) of an instance is b when p is above 2 and twice b
\* when it is not.
C12_IfSecondWhenTrue ==
    Answers(Uuids[3], Uuids[6], IfFormula) =>
        LET found == FindEntities(1, Uuids[3], TRUE)
        IN /\ ev.code = 200
           /\ Len(ev.values) = Len(found)
           /\ \A i \in 1..Len(found) : ToFloat(ev.values[i]) = IfExpected(found[i])

-----------------------------------------------------------------------------
(* Infix formulas.  parse_formula is run alone on formulas written from      *)
(* leaves, the operators of the three tiers, groups and a function call.     *)

\* operators in a flat formula
MaxOperators == 3

Operators == MulOps \cup AddOps \cup CmpOps

LeafNames == << <<"A">>, <<"B">>, <<"C">>, <<"D">>, <<"E">> >>
LeafNumbers == << <<"2">>, <<"3">>, <<"4">>, <<"5">>, <<"6">> >>

\* leaf, operator, leaf, ..., leaf
FlatTokens ==
    UNION {{[i \in 1..(2 * n + 1) |->
                IF i % 2 = 1 THEN leaves[(i + 1) \div 2] ELSE ops[i \div 2]] :
              ops \in [1..n -> Operators], leaves \in {LeafNames, LeafNumbers}} :
           n \in 0..MaxOperators}

\* (A a B) b C   A a (B b C)   SUM(A a B, C b D)   SUM((A a B) b C)
GroupedTokens ==
    UNION {{ << <<"(">>, <<"A">>, a, <<"B">>, <<")">>, b, <<"C">> >>,
             << <<"A">>, a, <<"(">>, <<"B">>, b, <<"C">>, <<")">> >>,
             << <<"S", "U", "M">>, <<"(">>, <<"A">>, a, <<"B">>, <<",">>,
                <<"C">>, b, <<"D">>, <<")">> >>,
             << <<"S", "U", "M">>, <<"(">>, <<"(">>, <<"A">>, a, <<"B">>, <<")">>,
                b, <<"C">>, <<")">> >> } :
           a \in Operators, b \in Operators}

\* the formula written from the tokens, with or without a space between them
RECURSIVE FormulaText(_, _)
FormulaText(tokens, space) ==
    IF Len(tokens) <= 1 THEN Flatten(tokens)
    ELSE Head(tokens) \o space \o FormulaText(Tail(tokens), space)

\* parse_formula, run to its end without another call beside it
parse_infix ==
    \E tokens \in FlatTokens \cup GroupedTokens, space \in {<<>>, <<" ">>} :
        LET formula == FormulaText(tokens, space)
            top_level == AddToLevel(<<>>, 0, Parts(formula))
        IN /\ par[1].pc = "idle"
           /\ par[1].calls < MaxCalls
           /\ par' = [par EXCEPT ![1] = [par[1] EXCEPT !.pc = "done",
                            !.formula = formula, !.part_list = Parts(formula),
                            !.result = ParseTopLevel(top_level.parent),
                            !.calls = @ + 1]]
           /\ part_idx' = top_level.idx
           /\ UNCHANGED <<structure, data_items, nextId, last, pub, ev>>

NextInfix ==
    \/ parse_infix
    \/ parse_formula_return

SpecInfix == Init /\ [][NextInfix]_vars

\* the tokens of a formula: leaves and operators, white space between them
\* dropped, a two-character operator taken before a one-character one
RECURSIVE Lex(_, _)
Lex(s, leaf) ==
    LET flushed == IF leaf = <<>> THEN <<>> ELSE <<leaf>> IN
    IF s = <<>> THEN flushed
    ELSE IF Len(s) >= 2 /\ SubSeq(s, 1, 2) \in Operators
    THEN flushed \o <<SubSeq(s, 1, 2)>> \o Lex(SubSeq(s, 3, Len(s)), <<>>)
    ELSE IF <<s[1]>> \in Operators THEN flushed \o << <<s[1]>> >> \o Lex(Tail(s), <<>>)
    ELSE IF s[1] = " " THEN flushed \o Lex(Tail(s), <<>>)
    ELSE Lex(Tail(s), Append(leaf, s[1]))

\* the places of the operators of a tier among the tokens
Places(tokens, tier) == {i \in 1..Len(tokens) : i % 2 = 0 /\ tokens[i] \in tier}

\* the tree of the reference parser: the root is the last operator of the
\* loosest tier the tokens hold, its operands the trees of the tokens on its
\* left and on its right
RECURSIVE RefTree(_)
RefTree(tokens) ==
    IF Len(tokens) = 1 THEN Str(tokens[1])
    ELSE LET tier == IF Places(tokens, CmpOps) # {} THEN CmpOps
                     ELSE IF Places(tokens, AddOps) # {} THEN AddOps
                     ELSE MulOps
             at == CHOOSE i \in Places(tokens, tier) :
                        \A j \in Places(tokens, tier) : j <= i
         IN Dct(tokens[at], <<RefTree(SubSeq(tokens, 1, at - 1)),
                              RefTree(SubSeq(tokens, at + 1, Len(tokens)))>>)

\* no parenthesis and no comma
IsFlat(formula) == \A i \in 1..Len(formula) : formula[i] \notin {"(", ")", ","}

\* C13: for a flat infix formula parse_formula returns the tree of the
\* reference parser: {*, /} binds tighter than {+, -}, which binds tighter
\* than the comparisons and && and ||, operators of one tier associate from
\* left to right, and every node has two operands.
C13_FlatAsReference ==
    (par[1].pc = "done" /\ IsFlat(par[1].formula)) =>
        par[1].result = <<RefTree(Lex(par[1].formula, <<>>))>>

\* "A * B * C" was parsed to {"*": [{"*": ["A", "B"]}, "C"]}
C13_Witness ==
    /\ par[1].pc = "done"
    /\ par[1].formula = <<"A", " ", "*", " ", "B", " ", "*", " ", "C">>
    /\ par[1].result = <<Dct(<<"*">>, <<Dct(<<"*">>, <<Str(<<"A">>), Str(<<"B">>)>>),
                                       Str(<<"C">>)>>)>>

\* C14: folding is applied inside parenthesized groups and inside function
\* argument lists too: in what parse_formula returns no operator of the three
\* tiers and no function name is left as a leaf, at any depth.
C14_NothingLeftUnfolded ==
    par[1].pc = "done" =>
        Leaves(par[1].result) \cap (Operators \cup FunctionNames) = {}

-----------------------------------------------------------------------------
(* Fan-out *)

\* the values the children of instance e hold for an attribute definition,
\* in the order the store returns the children
ChildValues(e, uuid) ==
    [i \in 1..Len(Children(e)) |-> data_items[Children(e)[i]].attributes[1].value]

RECURSIVE Total(_)
Total(values) ==
    IF values = <<>> THEN 0 ELSE DigitsValue(Head(values)) + Total(Tail(values))

\* every child of the listed instances is live and holds the attribute, and
\* there is a child
LiveChildren(entity_definition_id, uuid) ==
    LET found == FindEntities(1, entity_definition_id, TRUE) IN
    /\ \E i \in 1..Len(found) : Children(found[i]) # <<>>
    /\ \A i \in 1..Len(found) : \A j \in 1..Len(Children(found[i])) :
        LET child == data_items[Children(found[i])[j]]
        IN /\ ~child.is_deleted
           /\ Len(child.attributes) = 1
           /\ child.attributes[1].attribute_definition_id = uuid

\* the listed instances have the sum of their children's values as the
\* value of the first of their calculations
SumsListed(entity_definition_id, uuid) ==
    LET found == FindEntities(1, entity_definition_id, TRUE)
        each == Len(DefinitionOf(data_items[found[1]]).calculations)
    IN /\ ev.code = 200
       /\ Len(ev.values) = each * Len(found)
       /\ \A i \in 1..Len(found) :
            ToFloat(ev.values[each * (i - 1) + 1])
                = VFloat(Total(ChildValues(found[i], uuid)), 1)

\* ... and the values in the order of the store as the value of the third
JoinsListed(entity_definition_id, uuid) ==
    LET found == FindEntities(1, entity_definition_id, TRUE)
    IN \A i \in 1..Len(found) :
            ev.values[3 * (i - 1) + 3] = VStr(Flatten(ChildValues(found[i], uuid)))

\* C15: a calculation SUM over the attribute of the child instances, evaluated
\* on an instance whose children are live and hold the attribute, is the sum of
\* their values (1, 2 and 3 give 6), the values taken in the order the store
\* returns the children.
C15_FanOutSum ==
    /\ (Answers(Uuids[2], Uuids[5], SumOfNephews) /\ LiveChildren(Uuids[2], Uuids[4]))
        => (SumsListed(Uuids[2], Uuids[4]) /\ JoinsListed(Uuids[2], Uuids[4]))
    /\ (Answers(Uuids[1], Uuids[4], SumOfTrunkNephews) /\ LiveChildren(Uuids[1], Uuids[3]))
        => SumsListed(Uuids[1], Uuids[3])

\* the values the live children of instance e hold
LiveChildValues(e) ==
    LET live == SelectSeq(Children(e), LAMBDA c : ~data_items[c].is_deleted)
    IN [i \in 1..Len(live) |-> data_items[live[i]].attributes[1].value]

\* C16: the references to the attributes ('_') and to the calculations
\* ('_c_') of the child instances collect from the live children only: SUM
\* and COUNT over them are the sum and the number of the values of the
\* children that are not deleted.
C16_LiveChildrenOnly ==
    LET found == FindEntities(1, Uuids[2], TRUE) IN
    /\ Answers(Uuids[2], Uuids[5], SumOfNephews) =>
        /\ ev.code = 200
        /\ Len(ev.values) = 3 * Len(found)
        /\ \A i \in 1..Len(found) :
            /\ ToFloat(ev.values[3 * (i - 1) + 1])
                    = VFloat(Total(LiveChildValues(found[i])), 1)
            /\ ToFloat(ev.values[3 * (i - 1) + 2])
                    = VFloat(Len(LiveChildValues(found[i])), 1)
    /\ Answers(Uuids[2], Uuids[6], SumOfNephewCalculations) =>
        /\ ev.code = 200
        /\ Len(ev.values) = Len(found)
        /\ \A i \in 1..Len(found) :
            ToFloat(ev.values[i]) = VFloat(Total(LiveChildValues(found[i])), 1)

-----------------------------------------------------------------------------
(* Missing data *)

\* neither instance e nor its parent instance holds the attribute
Missing(e, uuid) ==
    /\ FirstValue(data_items[e], uuid) = <<>>
    /\ GetDocument(data_items[e].parent_entity_id) # 0
    /\ FirstValue(data_items[GetDocument(data_items[e].parent_entity_id)], uuid) = <<>>

\* C17: a reference to an attribute that neither the instance nor its parent
\* instance holds ends the evaluation of the calculation in an error: the
\* request that evaluates SUM(..p, .b) for an instance without p is not
\* answered with a value.
C17_MissingIsError ==
    LET found == FindEntities(1, Uuids[2], TRUE) IN
    (Answers(Uuids[2], Uuids[5], SumWithUncle)
        /\ \E i \in 1..Len(found) : Missing(found[i], Uuids[3]))
            => ev.code # 200

-----------------------------------------------------------------------------
(* The functions check_formula_code lets through.  The behaviours start from *)
(* the template with the attribute "a" under its trunk; calculations that    *)
(* call functions are added under the trunk.                                 *)

\* SUM(.a, 1)   CONTAINS(.a, 1)   NOT_CONTAINS(.a, 1)
\* IF(CONTAINS(.a, 1), 1, 2)   .a + 1   MEDIAN(.a)
FunctionFormulas ==
    { <<"S", "U", "M", "(", ".", "a", ",", " ", "1", ")">>,
      <<"C", "O", "N", "T", "A", "I", "N", "S", "(", ".", "a", ",", " ", "1", ")">>,
      <<"N", "O", "T", "_", "C", "O", "N", "T", "A", "I", "N", "S", "(", ".", "a", ",", " ", "1", ")">>,
      <<"I", "F", "(", "C", "O", "N", "T", "A", "I", "N", "S", "(", ".", "a", ",", " ", "1", ")", ",", " ", "1", ",", " ", "2", ")">>,
      <<".", "a", " ", "+", " ", "1">>,
      <<"M", "E", "D", "I", "A", "N", "(", ".", "a", ")">> }

CalculationNames == {<<"x">>, <<"y">>, <<"z">>}

\* add_calculation_to_entity under the trunk
add_function_calculation ==
    \E name \in CalculationNames, formula \in FunctionFormulas :
        Serve("add_calculation_to_entity", 1,
              AddCalculationToEntity(structure[1], structure[1].trunk.id, name, formula,
                                     Uuids[nextId + 1]), 1)

NextFunctions == add_function_calculation

SpecFunctions == InitCopy /\ [][NextFunctions]_vars

\* the keys of the dicts of a formula_code, at any depth
RECURSIVE DictKeys(_)
DictKeys(formula_code) ==
    UNION {(IF formula_code[i].t = "dict" THEN {formula_code[i].s} ELSE {})
                \cup (IF formula_code[i].t \in {"dict", "list"}
                      THEN DictKeys(formula_code[i].l) ELSE {}) :
           i \in 1..Len(formula_code)}

\* C18: check_formula_code rejects a formula_code that holds, at any depth, a
\* function or operator key outside the allow-list: the calculation it has
\* just found valid, the last one under the trunk, has allowed keys only.
C18_KeysOnAllowList ==
    (last.op = "add_calculation_to_entity" /\ last.verdict = "valid") =>
        LET calculations == structure[1].trunk.calculations
        IN DictKeys(calculations[Len(calculations)].formula_code) \subseteq AllowedFunctions

-----------------------------------------------------------------------------
(* Resolution of relative names.  The behaviours start from the template     *)
(* Trunk > k > m with an attribute and a calculation under each entity:      *)
(* p and q under the trunk, a and x under k, b and p under m.  Calculations  *)
(* named r are added whose formulas name them.                               *)

ResolveTemplates ==
    LET created == WrittenBy({CreateTemplate(<<>>, <<"T", "a">>, 0, 3)})
        entities == AddedEntity(AddedEntity(created, Uuids[4], <<"k">>, Uuids[5]),
                                Uuids[5], <<"m">>, Uuids[6])
        attributes ==
            AddedAttribute(
                AddedAttribute(AddedAttribute(entities, Uuids[4], <<"p">>, Uuids[7]),
                               Uuids[5], <<"a">>, Uuids[8]),
                Uuids[6], <<"b">>, Uuids[9])
    IN AddedCalculation(
            AddedCalculation(
                AddedCalculation(attributes, Uuids[4], <<"q">>, <<"1">>, Uuids[10]),
                Uuids[5], <<"x">>, <<"1">>, Uuids[11]),
            Uuids[6], <<"p">>, <<"1">>, Uuids[12])

InitResolve ==
    \E template \in ResolveTemplates :
        /\ structure = <<template>>
        /\ data_items = <<>>
        /\ nextId = 0
        /\ last = [op |-> "add_calculation_to_entity", tid |-> 1, code |-> 201,
                   verdict |-> "valid", write |-> TRUE]
        /\ pub = [p \in Threads |-> Idle]
        /\ part_idx = 0
        /\ par = [p \in Threads |-> NoParse]
        /\ ev = NoEval

\* .a   ..p   .m.b   .k.x   SUM(.m.p, ..p)   ..q + .b   .x * 7   abc   ..a   .p
RelativeFormulas ==
    { <<".", "a">>,
      <<".", ".", "p">>,
      <<".", "m", ".", "b">>,
      <<".", "k", ".", "x">>,
      <<"S", "U", "M", "(", ".", "m", ".", "p", ",", " ", ".", ".", "p", ")">>,
      <<".", ".", "q", " ", "+", " ", ".", "b">>,
      <<".", "x", " ", "*", " ", "7">>,
      <<"a", "b", "c">>,
      <<".", ".", "a">>,
      <<".", "p">> }

\* add_calculation_to_entity of a calculation named r under an entity
add_relative_calculation ==
    \E parent \in EntityIdsOf(structure[1].trunk), formula \in RelativeFormulas :
        Serve("add_calculation_to_entity", 1,
              AddCalculationToEntity(structure[1], parent, <<"r">>, formula,
                                     Uuids[nextId + 1]), 1)

NextResolve == add_relative_calculation

SpecResolve == InitResolve /\ [][NextResolve]_vars

\* the leaves of a tree, from left to right
RECURSIVE LeafSeq(_)
LeafSeq(formula_code) ==
    Flatten([i \in 1..Len(formula_code) |->
                IF formula_code[i].t \in {"dict", "list"} THEN LeafSeq(formula_code[i].l)
                ELSE <<formula_code[i]>>])

\* the prefixed ids of the elements a relative name written in a calculation
\* of the entity owning matches: .name an attribute or a calculation of the
\* entity, ..name one of its parent, .child.name one of its child entity
\* named child
Matching(leaf, owning, trunk) ==
    LET parents == {e \in EntitiesOf(trunk) :
                        \E i \in 1..Len(e.entities) : e.entities[i].id = owning.id}
        children == SeqToSet(owning.entities)
    IN {<<a.id>> : a \in {b \in SeqToSet(owning.attributes) : leaf = <<".">> \o b.name}}
       \cup {<<"c", "_", c.id>> :
                c \in {d \in SeqToSet(owning.calculations) : leaf = <<".">> \o d.name}}
       \cup UNION {{<<a.id>> :
                        a \in {b \in SeqToSet(e.attributes) : leaf = <<".", ".">> \o b.name}}
                   \cup {<<"c", "_", c.id>> :
                        c \in {d \in SeqToSet(e.calculations) :
                                    leaf = <<".", ".">> \o d.name}} :
                   e \in parents}
       \cup UNION {{<<"_", a.id>> :
                        a \in {b \in SeqToSet(e.attributes) :
                                    leaf = <<".">> \o e.name \o <<".">> \o b.name}}
                   \cup {<<"_", "c", "_", c.id>> :
                        c \in {d \in SeqToSet(e.calculations) :
                                    leaf = <<".">> \o e.name \o <<".">> \o d.name}} :
                   e \in children}

\* C19: in the formula_code of a stored calculation every leaf written as a
\* relative name that matches an element is the id of a matching element
\* behind the prefix of its kind: none for an attribute of the owning entity
\* or of its parent, c_ for a calculation of either, _ for an attribute of the
\* child entity named, _c_ for a calculation of that child; a leaf that is no
\* relative name is as it was written.
C19_PrefixByKind ==
    \A template \in Stored : \A c \in CalculationsOf(template.trunk) :
        LET written == LeafSeq(ParseFormula(c.calculation.formula))
            resolved == LeafSeq(c.calculation.formula_code)
        IN /\ Len(resolved) = Len(written)
           /\ \A i \in 1..Len(written) :
                /\ Matching(written[i].s, c.entity, template.trunk) # {}
                    => /\ resolved[i].t = "str"
                       /\ resolved[i].s \in Matching(written[i].s, c.entity, template.trunk)
                /\ written[i].s[1] # "." => resolved[i] = written[i]

\* under k the calculation r = SUM(.m.p, ..p) is stored as
\* {"SUM": ["_c_" + id of the calculation p of m, id of the attribute p of the trunk]}
C19_Witness ==
    \E template \in Stored : \E c \in CalculationsOf(template.trunk) :
        /\ c.entity.id = Uuids[5]
        /\ c.calculation.name = <<"r">>
        /\ c.calculation.formula_code =
                <<Dct(<<"S", "U", "M">>, <<Str(<<"_", "c", "_", Uuids[12]>>),
                                          Str(<<Uuids[7]>>)>>)>>

-----------------------------------------------------------------------------
(* Evaluation and the stores *)

\* C20: evaluation writes nothing: a get_entity_list request, with the calc
\* calls it makes, leaves every document of the instance store and of the
\* template store as it was, and no instance document ever holds a
\* calculation value.
C20_EvaluationWritesNothing ==
    /\ [](\A i \in 1..Len(data_items) : data_items[i].calculations = <<>>)
    /\ [][last'.op = "get_entity_list"
            => (data_items' = data_items /\ structure' = structure)]_vars

\* a get_entity_list request was answered with the values of calculations,
\* and the documents it listed hold none
C20_Witness ==
    /\ last.op = "get_entity_list"
    /\ ev.code = 200
    /\ ev.values # <<>>
    /\ \A i \in 1..Len(data_items) : data_items[i].calculations = <<>>

-----------------------------------------------------------------------------
(* datasets.py: restore_entity and update_attribute *)

\* restore_entity
RestoreEntity(entity_id) ==
    LET e == GetDocument(entity_id) IN
    IF e = 0 THEN [code |-> 404, write |-> FALSE, items |-> data_items]
    ELSE IF ~Exists(data_items[e].template_id)
    THEN [code |-> 404, write |-> FALSE, items |-> data_items]
    ELSE IF structure[data_items[e].template_id].status # "Published"
    THEN [code |-> 400, write |-> FALSE, items |-> data_items]
    ELSE [code |-> 200, write |-> TRUE, items |-> DeleteEntityRecursive(e, FALSE)]

\* update_attribute of datasets.py without the test of the template's status
UpdateAttributeValueAnyStatus(entity_id, attribute_definition_id, attribute_value) ==
    LET e == GetDocument(entity_id)
        entity == data_items[e]
        hits == {i \in 1..Len(entity.attributes) :
                    entity.attributes[i].attribute_definition_id = attribute_definition_id}
    IN IF e = 0 THEN [code |-> 404, write |-> FALSE, items |-> data_items]
       ELSE IF ~Exists(entity.template_id)
       THEN [code |-> 404, write |-> FALSE, items |-> data_items]
       ELSE IF ~FindEntityById(structure[entity.template_id].trunk,
                               entity.entity_definition_id).found
       THEN [code |-> 500, write |-> FALSE, items |-> data_items]
       ELSE IF entity.is_deleted
       THEN [code |-> 400, write |-> FALSE, items |-> data_items]
       ELSE IF hits = {} THEN [code |-> 404, write |-> FALSE, items |-> data_items]
       ELSE IF ~ValidateAttributeValue(attribute_value)
       THEN [code |-> 400, write |-> FALSE, items |-> data_items]
       ELSE [code |-> 200, write |-> TRUE,
             items |-> [data_items EXCEPT
                            ![e].attributes[Min(hits)].value = attribute_value]]

\* update_attribute of datasets.py
UpdateAttributeValue(entity_id, attribute_definition_id, attribute_value) ==
    LET e == GetDocument(entity_id)
        entity == data_items[e]
        hits == {i \in 1..Len(entity.attributes) :
                    entity.attributes[i].attribute_definition_id = attribute_definition_id}
    IN IF e = 0 THEN [code |-> 404, write |-> FALSE, items |-> data_items]
       ELSE IF ~Exists(entity.template_id)
       THEN [code |-> 404, write |-> FALSE, items |-> data_items]
       ELSE IF structure[entity.template_id].status # "Published"
       THEN [code |-> 400, write |-> FALSE, items |-> data_items]
       \* entity_definition, parent_entity = None
       ELSE IF ~FindEntityById(structure[entity.template_id].trunk,
                               entity.entity_definition_id).found
       THEN [code |-> 500, write |-> FALSE, items |-> data_items]
       ELSE IF entity.is_deleted
       THEN [code |-> 400, write |-> FALSE, items |-> data_items]
       ELSE IF hits = {} THEN [code |-> 404, write |-> FALSE, items |-> data_items]
       ELSE IF ~ValidateAttributeValue(attribute_value)
       THEN [code |-> 400, write |-> FALSE, items |-> data_items]
       ELSE [code |-> 200, write |-> TRUE,
             items |-> [data_items EXCEPT
                            ![e].attributes[Min(hits)].value = attribute_value]]

-----------------------------------------------------------------------------
(* The instance store under templates of every status.  The behaviours      *)
(* start from two Draft templates that the routes of templates.py have      *)
(* stored: "Ta" with Trunk > k > m and the attribute a of k, and "Tb", made *)
(* with source_id "Ta".  publish_template publishes them in either order,   *)
(* which deprecates the one published before; the routes of datasets.py     *)
(* create, update, delete and restore instances.                            *)

\* Trunk (u1) > k (u2) > m (u3) with the attribute a (u4) of k
Source == AddedAttribute(ThreeLevels, Uuids[2], <<"a">>, Uuids[4])

\* the store after create_template with source_id: ids u5 to u8
WithCopy ==
    {<<template, CreateTemplate(<<template>>, <<"T", "b">>, 1, 4).template>> :
        template \in Source}

InitData ==
    /\ structure \in WithCopy
    /\ data_items = <<>>
    /\ nextId = 8
    /\ last = [op |-> "create_template", tid |-> 2, code |-> 201,
               verdict |-> "none", write |-> TRUE]
    /\ pub = [p \in Threads |-> Idle]
    /\ part_idx = 0
    /\ par = [p \in Threads |-> NoParse]
    /\ ev = NoEval

\* the template an instance request refers to: the one of the instance
TemplateOf(entity_id) ==
    IF GetDocument(entity_id) = 0 THEN 0 ELSE data_items[GetDocument(entity_id)].template_id

\* the entity ids of a request: those of the documents, and one of no document
EntityRequests == {DocIds[i] : i \in 1..Len(data_items)} \cup {"d0"}

restore_entity ==
    \E entity_id \in EntityRequests :
        LET out == RestoreEntity(entity_id)
        IN /\ data_items' = out.items
           /\ last' = [op |-> "restore_entity", tid |-> TemplateOf(entity_id),
                       code |-> out.code, verdict |-> "none", write |-> out.write]
           /\ ev' = NoEval
           /\ UNCHANGED <<structure, nextId, pub, part_idx, par>>

delete_entity_request ==
    \E entity_id \in EntityRequests :
        LET out == DeleteEntity(entity_id)
        IN /\ data_items' = out.items
           /\ last' = [op |-> "delete_entity", tid |-> TemplateOf(entity_id),
                       code |-> out.code, verdict |-> "none", write |-> out.write]
           /\ ev' = NoEval
           /\ UNCHANGED <<structure, nextId, pub, part_idx, par>>

datasets_update_attribute ==
    \E entity_id \in EntityRequests, value \in {<<"5">>, <<"x">>} :
        \E attribute_definition_id \in AttributeIds(TemplateOf(entity_id)) :
            LET out == UpdateAttributeValue(entity_id, attribute_definition_id, value)
            IN /\ data_items' = out.items
               /\ last' = [op |-> "update_attribute", tid |-> TemplateOf(entity_id),
                           code |-> out.code, verdict |-> "none", write |-> out.write]
               /\ ev' = NoEval
               /\ UNCHANGED <<structure, nextId, pub, part_idx, par>>

NextData ==
    \/ publish_template
    \/ create_entity
    \/ datasets_update_attribute
    \/ delete_entity_request
    \/ restore_entity

SpecData == InitData /\ [][NextData]_vars

-----------------------------------------------------------------------------
(* Instance data and the status of the template *)

\* the requests of datasets.py that write to the instance store
DataOps == {"create_entity", "update_attribute", "delete_entity", "restore_entity"}

\* the status of the template a request refers to
StatusOf(tid) == IF Exists(tid) THEN structure[tid].status ELSE "none"

\* C21: instance data is written only under a Published template: a
\* create_entity, update_attribute, delete_entity or restore_entity request
\* that refers to a template that is not Published is rejected and leaves the
\* instance store as it was, and every document such a request adds or
\* changes belongs to a Published template.
C21_PublishedOnly ==
    [][last'.op \in DataOps =>
        /\ StatusOf(last'.tid) # "Published"
            => (last'.code # 200 /\ ~last'.write /\ data_items' = data_items)
        /\ \A i \in 1..Len(data_items') :
            (i > Len(data_items) \/ data_items'[i] # data_items[i])
                => StatusOf(data_items'[i].template_id) = "Published"]_vars

\* requests for an instance of a Deprecated template and for a Draft
\* template were answered 400, and requests under the Published one stored
\* an instance with an updated value
C21_Witness ==
    /\ last.op \in {"update_attribute", "delete_entity", "restore_entity"}
    /\ StatusOf(last.tid) = "Deprecated"
    /\ last.code = 400
    /\ \E i \in 1..Len(data_items) :
        /\ data_items[i].template_id = last.tid
        /\ data_items[i].attributes # <<>>
        /\ data_items[i].attributes[1].value = <<"5">>

-----------------------------------------------------------------------------
(* Soft delete and restore *)

\* the document an instance names as its parent, 0 when it names none
ParentOf(i) == GetDocument(data_items[i].parent_entity_id)

\* the instance and the instances above it, following parent_entity_id upward
RECURSIVE SelfAndAncestors(_)
SelfAndAncestors(i) ==
    IF ParentOf(i) = 0 THEN {i} ELSE {i} \cup SelfAndAncestors(ParentOf(i))

\* the subtree of instance e: e and the instances beneath it
Subtree(e) == {i \in 1..Len(data_items) : e \in SelfAndAncestors(i)}

\* items is the store with the subtree of e flagged is_deleted and every
\* other field and document as in the store
Cascaded(items, e, is_deleted) ==
    /\ Len(items) = Len(data_items)
    /\ \A i \in 1..Len(items) :
        items[i] = IF i \in Subtree(e)
                   THEN [data_items[i] EXCEPT !.is_deleted = is_deleted]
                   ELSE data_items[i]

\* C22: soft delete and restore cascade: an accepted delete_entity(e) leaves
\* e and every instance beneath it with is_deleted = True, an accepted
\* restore_entity(e) leaves all of them with is_deleted = False, and the
\* instances outside the subtree of e are unchanged.
C22_Cascade ==
    /\ [](\A e \in 1..Len(data_items) :
            /\ DeleteEntity(DocIds[e]).write
                => Cascaded(DeleteEntity(DocIds[e]).items, e, TRUE)
            /\ RestoreEntity(DocIds[e]).write
                => Cascaded(RestoreEntity(DocIds[e]).items, e, FALSE))
    /\ [][last'.op \in {"delete_entity", "restore_entity"} /\ last'.write
            => \E e \in 1..Len(data_items) :
                /\ data_items[e].template_id = last'.tid
                /\ Cascaded(data_items', e, last'.op = "delete_entity")]_vars

\* a delete_entity request has flagged an instance, its child and its
\* grandchild
C22_Witness ==
    /\ last.op = "delete_entity"
    /\ last.write
    /\ \E i, j, k \in 1..Len(data_items) :
        /\ ParentOf(j) = i
        /\ ParentOf(k) = j
        /\ data_items[i].is_deleted
        /\ data_items[j].is_deleted
        /\ data_items[k].is_deleted

\* C30: in every state of the instance store that create_entity,
\* delete_entity and restore_entity requests reach, no instance with
\* is_deleted = False has an instance above it with is_deleted = True.
C30_NoLiveUnderDeleted ==
    \A i \in 1..Len(data_items) :
        ~data_items[i].is_deleted
            => \A j \in SelfAndAncestors(i) : ~data_items[j].is_deleted

-----------------------------------------------------------------------------
(* Listing and is_deleted *)

\* the instances of a template and an entity definition, the deleted ones
\* among them only when include_deleted
Listable(template_id, entity_definition_id, include_deleted) ==
    {i \in 1..Len(data_items) :
        /\ data_items[i].template_id = template_id
        /\ data_items[i].entity_definition_id = entity_definition_id
        /\ (include_deleted \/ ~data_items[i].is_deleted)}

\* C23: get_entity_list with the empty filter returns exactly the instances
\* of the requested template and entity definition that are not deleted,
\* and with include_deleted = True those and the deleted ones: the answer
\* of a request holds the calculations of each of them.
C23_ListsExactly ==
    (last.op = "get_entity_list" /\ ev.code = 200) =>
        LET found == FindEntities(ev.template_id, ev.entity_definition_id,
                                  ev.include_deleted)
            entity_definition ==
                FindEntityById(structure[ev.template_id].trunk, ev.entity_definition_id).node
        IN /\ SeqToSet(found) = Listable(ev.template_id, ev.entity_definition_id,
                                         ev.include_deleted)
           /\ Len(ev.values) = Len(found) * Len(entity_definition.calculations)

-----------------------------------------------------------------------------
(* LOOKUP.  The behaviours start from a published template Trunk > k > m     *)
(* where m has the source attribute b and the target attribute t, and k has  *)
(* a calculation that looks up the value 3 among its m instances.            *)

\* LOOKUP(3, .m.b, .m.t)   LOOKUP(.m.t, .m.b, 3)
LookupSoughtFirst ==
    <<"L", "O", "O", "K", "U", "P", "(", "3", ",", " ", ".", "m", ".", "b", ",", " ",
      ".", "m", ".", "t", ")">>
LookupTargetFirst ==
    <<"L", "O", "O", "K", "U", "P", "(", ".", "m", ".", "t", ",", " ", ".", "m", ".", "b",
      ",", " ", "3", ")">>

\* m has the attributes b (u4) and t (u5); k has the calculation c (u6)
LookupTemplates ==
    UNION {AddedCalculation(
            AddedAttribute(AddedAttribute(ThreeLevels, Uuids[3], <<"b">>, Uuids[4]),
                           Uuids[3], <<"t">>, Uuids[5]),
            Uuids[2], <<"c">>, formula, Uuids[6]) :
           formula \in {LookupSoughtFirst, LookupTargetFirst}}

InitLookup ==
    \E template \in LookupTemplates :
        /\ structure = <<[template EXCEPT !.status = "Published"]>>
        /\ data_items = <<TrunkInstance(1, template)>>
        /\ nextId = CountIds(template.trunk)
        /\ last = [op |-> "publish_template", tid |-> 1, code |-> 200,
                   verdict |-> "none", write |-> TRUE]
        /\ pub = [p \in Threads |-> Idle]
        /\ part_idx = 0
        /\ par = [p \in Threads |-> NoParse]
        /\ ev = NoEval

\* the values a request gives the source and the target attribute
SourceValues == {"2", "3", "4"}
TargetValues == {"7", "8"}

\* the attributes of a create_entity request for an entity definition: a
\* value for each of its two attribute definitions, if it has them
SourceTargetRequests(entity_definition) ==
    IF entity_definition.attributes = <<>> THEN {<<>>}
    ELSE {<<InstanceAttribute(entity_definition.attributes[1].id, <<b>>),
            InstanceAttribute(entity_definition.attributes[2].id, <<t>>)>> :
            b \in SourceValues, t \in TargetValues}

\* create_entity beneath an instance of the store, with a source and a
\* target value
create_candidate_entity ==
    \E parent \in 1..Len(data_items) :
      \E entity_definition \in SeqToSet(DefinitionOf(data_items[parent]).entities) :
        \E attributes \in SourceTargetRequests(entity_definition) :
            LET tid == data_items[parent].template_id
                out == CreateEntity(tid, entity_definition.id, DocIds[parent], attributes)
            IN /\ out.write => Len(data_items) < MaxInstances
               /\ data_items' = IF out.write THEN Append(data_items, out.doc)
                                ELSE data_items
               /\ last' = [op |-> "create_entity", tid |-> tid, code |-> out.code,
                           verdict |-> "none", write |-> out.write]
               /\ ev' = NoEval
               /\ UNCHANGED <<structure, nextId, pub, part_idx, par>>

NextLookup ==
    \/ create_candidate_entity
    \/ delete_entity
    \/ list_entities

SpecLookup == InitLookup /\ [][NextLookup]_vars

\* the distance of the source value of candidate c from the sought value 3
Distance(c) == Abs(DigitsValue(data_items[c].attributes[1].value) - 3)

\* the candidates of instance e whose source value is closest to 3
Closest(e) ==
    {c \in SeqToSet(Children(e)) :
        \A other \in SeqToSet(Children(e)) : Distance(c) <= Distance(other)}

\* C24: LOOKUP over a numeric source attribute gives the target attribute of
\* a candidate whose source value is closest to the sought value, one of them
\* when several are equally close: the calculation of an instance of k whose
\* m instances are all live is the value of t of one of the m instances with
\* b closest to 3.
C24_LookupClosest ==
    \A formula \in {LookupSoughtFirst, LookupTargetFirst} :
        Answers(Uuids[2], Uuids[6], formula) =>
            LET found == FindEntities(1, Uuids[2], TRUE)
            IN \A i \in 1..Len(found) :
                (/\ Children(found[i]) # <<>>
                 /\ \A c \in SeqToSet(Children(found[i])) : ~data_items[c].is_deleted)
                    => /\ ev.code = 200
                       /\ Len(ev.values) = Len(found)
                       /\ \E c \in Closest(found[i]) :
                            ToFloat(ev.values[i]) =
                                VFloat(DigitsValue(data_items[c].attributes[2].value), 1)

-----------------------------------------------------------------------------
(* check_circularities.  structure holds the tree check_formula_code is      *)
(* called with: the trunk with the calculations x (u2) and y (u3) and the    *)
(* attribute a (u5), and the entity k (u6) with the calculation z (u4).      *)
(* Each formula_code lists references to the calculations and the attribute. *)

\* references in one formula_code
MaxInputs == 2

\* the leaf the resolver writes for a calculation and for an attribute
CalculationLeaf(id) == Str(<<"c", "_", id>>)
AttributeLeaf(id) == Str(<<id>>)

GraphLeaves ==
    {CalculationLeaf(Uuids[2]), CalculationLeaf(Uuids[3]), CalculationLeaf(Uuids[4]),
     AttributeLeaf(Uuids[5])}

FormulaCodes == UNION {[1..n -> GraphLeaves] : n \in 0..MaxInputs}

GraphTrunk(x, y, z) ==
    [Entity(Uuids[1], "None", TrunkName) EXCEPT
        !.attributes = <<Attribute(Uuids[5], <<"a">>)>>,
        !.calculations =
            <<[Calculation(Uuids[2], Uuids[1], <<"x">>, <<>>) EXCEPT !.formula_code = x],
              [Calculation(Uuids[3], Uuids[1], <<"y">>, <<>>) EXCEPT !.formula_code = y]>>,
        !.entities =
            <<[Entity(Uuids[6], Uuids[1], <<"k">>) EXCEPT
                !.calculations =
                    <<[Calculation(Uuids[4], Uuids[6], <<"z">>, <<>>)
                            EXCEPT !.formula_code = z]>>]>>]

InitCircular ==
    /\ \E x, y, z \in FormulaCodes :
        structure = <<Template(<<"T", "a">>, "Draft", 0, GraphTrunk(x, y, z))>>
    /\ data_items = <<>>
    /\ nextId = 6
    /\ last = [op |-> "none", tid |-> 0, code |-> 0, verdict |-> "none", write |-> FALSE]
    /\ pub = [p \in Threads |-> Idle]
    /\ part_idx = 0
    /\ par = [p \in Threads |-> NoParse]
    /\ ev = NoEval

\* check_formula_code from "function_inputs = process_formula_code_by_entity
\* (trunk)" to the test of check_circularities(function_inputs)
check_circularities ==
    /\ last.op = "none"
    /\ last' = [op |-> "check_circularities", tid |-> 1, code |-> 0,
                verdict |-> IF CheckCircularities(
                                    ProcessFormulaCodeByEntity(structure[1].trunk))
                            THEN "circular" ELSE "acyclic",
                write |-> FALSE]
    /\ UNCHANGED <<structure, data_items, nextId, pub, part_idx, par, ev>>

NextCircular == check_circularities

SpecCircular == InitCircular /\ [][NextCircular]_vars

\* the edges of the graph: (calculation id, referenced id), as a set
EdgesOf(trunk) ==
    UNION {{<<c.calculation.id, c.calculation.formula_code[i].s[Len(c.calculation.formula_code[i].s)]>> :
                i \in 1..Len(c.calculation.formula_code)} :
           c \in CalculationsOf(trunk)}

\* some node of the graph reaches itself along one edge or more
HasCycle(edges) == \E e \in edges : Reaches(edges, e[1], e[1])

\* C25: check_circularities returns True if and only if the graph of the
\* (calculation id, referenced id) pairs has a directed cycle: an acyclic
\* graph, a diamond among them, is accepted and a graph with a cycle is
\* reported, in whatever order the calculations and the references are listed.
C25_CycleIff ==
    last.op = "check_circularities" =>
        (last.verdict = "circular" <=> HasCycle(EdgesOf(structure[1].trunk)))

\* a diamond was accepted: x refers to y and z, and y and z to a
C25_Witness ==
    /\ last.op = "check_circularities"
    /\ last.verdict = "acyclic"
    /\ structure[1].trunk.calculations[1].formula_code
            = <<CalculationLeaf(Uuids[3]), CalculationLeaf(Uuids[4])>>
    /\ structure[1].trunk.calculations[2].formula_code = <<AttributeLeaf(Uuids[5])>>
    /\ structure[1].trunk.entities[1].calculations[1].formula_code
            = <<AttributeLeaf(Uuids[5])>>

-----------------------------------------------------------------------------
(* DIFFERENCE.  The behaviours start from a published template Trunk > k     *)
(* where k has the attribute b and a calculation c that subtracts: two       *)
(* literals, a literal from the attribute, a literal from the result of a    *)
(* function, and the result of a function from the result of another.        *)

\* 5 - 3   .b - 3   SUM(.b, 5) - 3   SUM(.b, 5) - PRODUCT(.b, 2)
LiteralDifference == <<"5", " ", "-", " ", "3">>
AttributeDifference == <<".", "b", " ", "-", " ", "3">>
MixedDifference ==
    <<"S", "U", "M", "(", ".", "b", ",", " ", "5", ")", " ", "-", " ", "3">>
NestedDifference ==
    <<"S", "U", "M", "(", ".", "b", ",", " ", "5", ")", " ", "-", " ",
      "P", "R", "O", "D", "U", "C", "T", "(", ".", "b", ",", " ", "2", ")">>

DifferenceFormulas ==
    {LiteralDifference, AttributeDifference, MixedDifference, NestedDifference}

\* k has the attribute b (u3) and the calculation c (u4)
DifferenceTemplates ==
    UNION {AddedCalculation(AddedAttribute(TwoLevels, Uuids[2], <<"b">>, Uuids[3]),
                            Uuids[2], <<"c">>, formula, Uuids[4]) :
           formula \in DifferenceFormulas}

InitDifference ==
    \E template \in DifferenceTemplates :
        /\ structure = <<[template EXCEPT !.status = "Published"]>>
        /\ data_items = <<TrunkInstance(1, template)>>
        /\ nextId = CountIds(template.trunk)
        /\ last = [op |-> "publish_template", tid |-> 1, code |-> 200,
                   verdict |-> "none", write |-> TRUE]
        /\ pub = [p \in Threads |-> Idle]
        /\ part_idx = 0
        /\ par = [p \in Threads |-> NoParse]
        /\ ev = NoEval

SpecDifference == InitDifference /\ [][NextEval]_vars

\* first operand minus second, for the instance e of k
DifferenceExpected(formula, e) ==
    LET b == DigitsValue(data_items[e].attributes[1].value)
    IN CASE formula = LiteralDifference -> 5 - 3
         [] formula = AttributeDifference -> b - 3
         [] formula = MixedDifference -> (b + 5) - 3
         [] formula = NestedDifference -> (b + 5) - (b * 2)

\* C26: DIFFERENCE / '-' gives its first operand minus its second however
\* the numeric operands are supplied: a literal of the formula, the value of
\* an attribute of the instance, or the result of a nested function.
C26_FirstMinusSecond ==
    \A formula \in DifferenceFormulas :
        Answers(Uuids[2], Uuids[4], formula) =>
            LET found == FindEntities(1, Uuids[2], TRUE)
            IN /\ ev.code = 200
               /\ Len(ev.values) = Len(found)
               /\ \A i \in 1..Len(found) :
                    ToFloat(ev.values[i]) = VFloat(DifferenceExpected(formula, found[i]), 1)

-----------------------------------------------------------------------------
(* Function names.  parse_formula is run alone on formulas in which the      *)
(* function names SUM and MAX stand before a group, before a leaf, before an *)
(* operator, and last.                                                       *)

\* items in a formula
MaxTokens == 3

\* SUM   MAX   (A)   (MAX, A)   A   +
FormulaItems ==
    { <<"S", "U", "M">>, <<"M", "A", "X">>, <<"(", "A", ")">>,
      <<"(", "M", "A", "X", ",", " ", "A", ")">>, <<"A">>, <<"+">> }

FunctionNameTokens == UNION {[1..n -> FormulaItems] : n \in 1..MaxTokens}

\* parse_formula, run to its end without another call beside it
parse_function_names ==
    \E tokens \in FunctionNameTokens, separator \in {<<" ">>, <<",", " ">>} :
        LET formula == FormulaText(tokens, separator)
            top_level == AddToLevel(<<>>, 0, Parts(formula))
        IN /\ par[1].pc = "idle"
           /\ par[1].calls < MaxCalls
           /\ par' = [par EXCEPT ![1] = [par[1] EXCEPT !.pc = "done",
                            !.formula = formula, !.part_list = Parts(formula),
                            !.result = ParseTopLevel(top_level.parent),
                            !.calls = @ + 1]]
           /\ part_idx' = top_level.idx
           /\ UNCHANGED <<structure, data_items, nextId, last, pub, ev>>

NextFunctionNames ==
    \/ parse_function_names
    \/ parse_formula_return

SpecFunctionNames == Init /\ [][NextFunctionNames]_vars

\* the list with every function name that stands immediately before a group
\* folded with it into (name, arguments), the arguments folded likewise, and
\* every other element in its place
RECURSIVE FoldBeforeGroups(_, _)
FoldBeforeGroups(part_list, idx) ==
    IF idx >= Len(part_list) THEN part_list
    ELSE LET part == part_list[idx + 1] IN
        IF /\ part.t = "str"
           /\ part.s \in FunctionNames
           /\ idx + 2 <= Len(part_list)
           /\ part_list[idx + 2].t = "list"
        THEN FoldBeforeGroups(
                SubSeq(part_list, 1, idx)
                    \o <<Tup(part.s, Lst(FoldBeforeGroups(part_list[idx + 2].l, 0)))>>
                    \o SubSeq(part_list, idx + 3, Len(part_list)),
                idx + 1)
        ELSE FoldBeforeGroups(part_list, idx + 1)

\* C27: a leaf equal to a function name is folded into a function node only
\* when the element immediately after it is a parenthesized group; before
\* any other element, or last in its list, it is left in place and the
\* element after it is neither consumed nor removed.
C27_FoldOnlyBeforeGroup ==
    par[1].pc = "done" =>
        LET top_level == AddToLevel(<<>>, 0, par[1].part_list).parent
        IN CreateFunctionTuple(top_level) = FoldBeforeGroups(top_level, 0)

-----------------------------------------------------------------------------
(* Lookups in the template tree *)

\* C28: every lookup in the tree of a stored template returns the element
\* with the entity that directly contains it, at any depth: the two
\* find_entity_by_id give a child entity with its parent entity and the
\* trunk with None, and find_attribute_by_id and find_calculation_by_id give
\* the element with the entity whose list holds it.
C28_DirectContainer ==
    \A template \in Stored :
        /\ FindEntityById(template.trunk, template.trunk.id).parent = NoEntity
        /\ ResFindEntityById(template.trunk, template.trunk.id).parent = NoEntity
        /\ \A e \in EntitiesOf(template.trunk) :
            /\ \A i \in 1..Len(e.entities) :
                /\ FindEntityById(template.trunk, e.entities[i].id).node = e.entities[i]
                /\ FindEntityById(template.trunk, e.entities[i].id).parent = e
                /\ ResFindEntityById(template.trunk, e.entities[i].id).node = e.entities[i]
                /\ ResFindEntityById(template.trunk, e.entities[i].id).parent = e
            /\ \A i \in 1..Len(e.attributes) :
                /\ FindAttributeById(template.trunk, e.attributes[i].id).node
                        = e.attributes[i]
                /\ FindAttributeById(template.trunk, e.attributes[i].id).parent = e
            /\ \A i \in 1..Len(e.calculations) :
                /\ FindCalculationById(template.trunk, e.calculations[i].id).node
                        = e.calculations[i]
                /\ FindCalculationById(template.trunk, e.calculations[i].id).parent = e

-----------------------------------------------------------------------------
(* Groups in operand lists.  The behaviours start from a published template  *)
(* Trunk > k where k has the attribute b and a calculation c whose formula   *)
(* is well formed and holds a parenthesized group.                           *)

\* (.b + 1) * 2   .b * (.b + 1)   SUM(.b, (.b + 1))   (.b + 1)   .b * 2 + 1
GroupTimes == <<"(", ".", "b", " ", "+", " ", "1", ")", " ", "*", " ", "2">>
TimesGroup == <<".", "b", " ", "*", " ", "(", ".", "b", " ", "+", " ", "1", ")">>
GroupArgument ==
    <<"S", "U", "M", "(", ".", "b", ",", " ", "(", ".", "b", " ", "+", " ", "1", ")", ")">>
GroupAlone == <<"(", ".", "b", " ", "+", " ", "1", ")">>
NoGroup == <<".", "b", " ", "*", " ", "2", " ", "+", " ", "1">>

GroupFormulas == {GroupTimes, TimesGroup, GroupArgument, GroupAlone, NoGroup}

\* k has the attribute b (u3) and the calculation c (u4)
GroupTemplates ==
    UNION {AddedCalculation(AddedAttribute(TwoLevels, Uuids[2], <<"b">>, Uuids[3]),
                            Uuids[2], <<"c">>, formula, Uuids[4]) :
           formula \in GroupFormulas}

InitGroup ==
    \E template \in GroupTemplates :
        /\ structure = <<[template EXCEPT !.status = "Published"]>>
        /\ data_items = <<TrunkInstance(1, template)>>
        /\ nextId = CountIds(template.trunk)
        /\ last = [op |-> "publish_template", tid |-> 1, code |-> 200,
                   verdict |-> "none", write |-> TRUE]
        /\ pub = [p \in Threads |-> Idle]
        /\ part_idx = 0
        /\ par = [p \in Threads |-> NoParse]
        /\ ev = NoEval

SpecGroup == InitGroup /\ [][NextEval]_vars

\* a list stands directly inside the operand list of a function node
RECURSIVE ListInOperands(_)
ListInOperands(formula_code) ==
    \E i \in 1..Len(formula_code) :
        \/ /\ formula_code[i].t = "dict"
           /\ \E j \in 1..Len(formula_code[i].l) : formula_code[i].l[j].t = "list"
        \/ /\ formula_code[i].t \in {"dict", "list"}
           /\ ListInOperands(formula_code[i].l)

\* C29: parser, resolver and evaluator agree on the shape of the tree: the
\* formula_code stored for a well-formed formula has no list directly inside
\* an operand list, and get_entity_list never ends with the ValueError
\* 'Lists in a list are not allowed' of calc.
C29_NoListInOperands ==
    (last.op = "get_entity_list" /\ ev.entity_definition_id = Uuids[2]) =>
        /\ \A i \in 1..Len(structure[1].trunk.entities[1].calculations) :
            ~ListInOperands(structure[1].trunk.entities[1].calculations[i].formula_code)
        /\ ev.raised # Raise("ValueError")

=============================================================================
